---- MODULE Spec2Model ----
(***************************************************************************)
(* The execution correlation engine of n8n-debug-mcp: the webhook index,   *)
(* the signal extractors, the two scorers and the recursive, depth- and    *)
(* time-window-bounded correlation search (src/src/correlator.ts and the   *)
(* helpers of src/src/n8n-client.ts it calls).                             *)
(*                                                                         *)
(* Representation.                                                         *)
(*  - JavaScript strings that the code takes apart (URLs, webhook paths,   *)
(*    response ids) are sequences of one-character strings; identifiers    *)
(*    that are only compared are TLA+ strings.  A field that is absent or  *)
(*    falsy is the empty string / the empty sequence: every read of such a *)
(*    field in the code is a truthiness test.                              *)
(*  - startedAt is the epoch millisecond value new Date(..).getTime()      *)
(*    yields for it; run.startTime is already a number in the code.        *)
(*  - A confidence is held in tenths (3 is 0.3).  The weights are the      *)
(*    decimal literals of the source; for every combination of signals the *)
(*    IEEE-754 sum the code computes is within one ulp of the decimal sum  *)
(*    and lies on the same side of 0.5 and of 1.0, so comparisons agree.   *)
(*  - run data (a map from node name to runs) is the sequence of its runs  *)
(*    in Object.entries order, each run carrying its node name.            *)
(*  - A startedAt that is absent or unparsable gives the number NaN, held  *)
(*    as a value no real timestamp has; every comparison with it is false. *)
(***************************************************************************)
EXTENDS Integers, Sequences, FiniteSets, TLC

VARIABLES
    ds,               \* the Execution Data Source snapshot the client reads
    webhookMappings,  \* ExecutionCorrelator.webhookMappings
    workflowCache,    \* ExecutionCorrelator.workflowCache, in insertion order
    pc,               \* position of the caller: idle, initialized, search, done
    rootExecutionId,  \* argument of correlateExecutions
    timeWindowMs,     \* option of correlateExecutions
    maxDepth,         \* option of correlateExecutions
    results,          \* the CorrelationResult[] of the running search
    visited,          \* the Set<string> of the running search
    stack,            \* activation records of findCorrelatedExecutions
    requests,         \* listExecutions requests issued by the search, in order
    last,             \* the last candidate decision taken (for observation)
    indexBuilds,      \* how many times the body of initialize() has run
    expanded,         \* ids whose activation got past the depth test, in order
    replies,          \* what each correlateExecutions call handed its caller
    failures,         \* positions in requests of the calls the data source failed
    lookup,           \* the last findWorkflowByWebhook call made from outside
    printed,          \* the tree lines formatCorrelationTree has emitted
    toolCalls         \* tool and client calls made with an id, with their requests

vars == <<ds, webhookMappings, workflowCache, pc, rootExecutionId, timeWindowMs,
          maxDepth, results, visited, stack, requests, last, indexBuilds,
          expanded, replies, failures, lookup,
          printed, toolCalls>>

----------------------------------------------------------------------------
(* Character sequences *)

Str_http == <<"h","t","t","p",":","/","/">>
Str_https == <<"h","t","t","p","s",":","/","/">>
Str_webhook == <<"/","w","e","b","h","o","o","k">>
Str_slash == <<"/">>

\* the element of a one-element set: Only({e(x) : x \in {v}}) is e(v), with v
\* worked out once
Only(S) == CHOOSE x \in S : TRUE

StartsWith(s, p) == Len(s) >= Len(p) /\ SubSeq(s, 1, Len(p)) = p

DropFirst(s, n) == SubSeq(s, n + 1, Len(s))

\* String.prototype.includes
Includes(s, sub) ==
    \E t \in {s}, u \in {sub} :
        \E i \in 1 .. (Len(t) - Len(u) + 1) : SubSeq(t, i, i + Len(u) - 1) = u

\* String.prototype.replace(/^<p>/, '')
StripPrefix(s, p) == IF StartsWith(s, p) THEN DropFirst(s, Len(p)) ELSE s

\* index of the first character of s that is in cs, or Len(s) + 1
FirstOf(s, cs) ==
    Only({ IF \E i \in 1 .. Len(t) : t[i] \in cs
           THEN CHOOSE i \in 1 .. Len(t) :
                    t[i] \in cs /\ \A j \in 1 .. (i - 1) : t[j] \notin cs
           ELSE Len(t) + 1 : t \in {s} })

\* new URL(s) succeeds: an http(s) scheme followed by a non-empty host
UrlScheme(s) ==
    IF StartsWith(s, Str_https) THEN Str_https
    ELSE IF StartsWith(s, Str_http) THEN Str_http
    ELSE <<>>

UrlParses(s) ==
    /\ UrlScheme(s) # <<>>
    /\ FirstOf(DropFirst(s, Len(UrlScheme(s))), {"/", "?", "#"}) > 1

\* new URL(s).pathname
UrlPathname(s) ==
    LET rest == DropFirst(s, Len(UrlScheme(s)))
        afterHost == DropFirst(rest, FirstOf(rest, {"/", "?", "#"}) - 1)
        path == SubSeq(afterHost, 1, FirstOf(afterHost, {"?", "#"}) - 1)
    IN  IF path = <<>> THEN Str_slash ELSE path

----------------------------------------------------------------------------
(* N8nClient helpers *)

NodeType_webhook == "n8n-nodes-base.webhook"
NodeType_executeWorkflowTrigger == "n8n-nodes-base.executeWorkflowTrigger"

\* path.startsWith('/') ? path : `/${path}`
EnsureLeadingSlash(path) ==
    IF StartsWith(path, Str_slash) THEN path ELSE Str_slash \o path

RECURSIVE extractWebhookPaths_from(_, _)
extractWebhookPaths_from(nodes, i) ==
    IF i > Len(nodes) THEN <<>>
    ELSE LET node == nodes[i]
             here == IF node.type = NodeType_webhook /\ node.path # <<>>
                     THEN << EnsureLeadingSlash(node.path) >>
                     ELSE <<>>
         IN  here \o extractWebhookPaths_from(nodes, i + 1)

extractWebhookPaths(workflow) == extractWebhookPaths_from(workflow.nodes, 1)

hasSubWorkflowTrigger(workflow) ==
    \E i \in 1 .. Len(workflow.nodes) :
        workflow.nodes[i].type = NodeType_executeWorkflowTrigger

\* json.url || json.requestUrl
CallUrl(json) == IF json.url # <<>> THEN json.url ELSE json.requestUrl

RECURSIVE extractHttpCalls_from(_, _)
extractHttpCalls_from(runData, i) ==
    IF i > Len(runData) THEN <<>>
    ELSE LET run == runData[i]
             here == IF run.hasJson /\ CallUrl(run.json) # <<>>
                     THEN << [nodeName |-> run.node,
                              url |-> CallUrl(run.json),
                              timestamp |-> run.startTime] >>
                     ELSE <<>>
         IN  here \o extractHttpCalls_from(runData, i + 1)

extractHttpCalls(execution) == extractHttpCalls_from(execution.runData, 1)

EmptyContext == [userId |-> "", chatId |-> "", correlationId |-> "", responseId |-> <<>>]

\* the four assignments from one payload (top-level json, or its body)
ReadIds(result, obj) ==
    [userId |-> IF obj.user_id # "" THEN obj.user_id ELSE result.userId,
     chatId |-> IF obj.chat_id # "" THEN obj.chat_id ELSE result.chatId,
     correlationId |-> IF obj.correlation_id # "" THEN obj.correlation_id
                       ELSE result.correlationId,
     responseId |-> IF obj.response_id # <<>> THEN obj.response_id
                    ELSE result.responseId]

\* extractUserContext without its early return
RECURSIVE extractUserContext_scanAll(_, _, _)
extractUserContext_scanAll(runData, i, result) ==
    IF i > Len(runData) THEN result
    ELSE LET run == runData[i]
         IN  IF ~run.hasJson THEN extractUserContext_scanAll(runData, i + 1, result)
             ELSE extractUserContext_scanAll(runData, i + 1,
                      ReadIds(ReadIds(result, run.json), run.json.body))

RECURSIVE extractUserContext_from(_, _, _)
extractUserContext_from(runData, i, result) ==
    IF i > Len(runData) THEN result
    ELSE LET run == runData[i]
         IN  IF ~run.hasJson THEN extractUserContext_from(runData, i + 1, result)
             ELSE LET r == ReadIds(ReadIds(result, run.json), run.json.body)
                  IN  IF r.userId # "" \/ r.chatId # "" THEN r
                      ELSE extractUserContext_from(runData, i + 1, r)

extractUserContext(execution) ==
    extractUserContext_from(execution.runData, 1, EmptyContext)

----------------------------------------------------------------------------
(* N8nClient requests, answered from the snapshot ds *)

\* GET /workflows?active=true: the summaries of the active workflows
listWorkflows == ds.workflows

\* GET /workflows/:id: the full definition, nodes included
getWorkflow(workflowId) == ds.definitions[workflowId]

\* GET /executions/:id
getExecution(executionId) == ds.execs[executionId]

Take(s, n) == SubSeq(s, 1, IF Len(s) < n THEN Len(s) ELSE n)

\* GET /executions?workflowId=..&limit=..: at most limit executions
listExecutions(workflowId, limit) ==
    IF workflowId \in DOMAIN ds.listing
    THEN LET ids == Take(ds.listing[workflowId], limit)
         IN  [i \in 1 .. Len(ids) |-> ds.execs[ids[i]]]
    ELSE <<>>

----------------------------------------------------------------------------
(* ExecutionCorrelator: the webhook index *)

\* Map.prototype.set on a map kept as a sequence of entries
\* a Map whose set always adds an entry
MapSet_append(m, k, v) == Append(m, [key |-> k, value |-> v])

\* Map.prototype.set: an existing key keeps its place
MapSet(m, k, v) ==
    IF \E i \in 1 .. Len(m) : m[i].key = k
    THEN [i \in 1 .. Len(m) |-> IF m[i].key = k THEN [key |-> k, value |-> v] ELSE m[i]]
    ELSE Append(m, [key |-> k, value |-> v])

\* initialize caching what the listing returned instead of the definition
RECURSIVE initialize_from_cacheListed(_, _, _, _)
initialize_from_cacheListed(workflows, i, cache, mappings) ==
    IF i > Len(workflows)
    THEN [workflowCache |-> cache, webhookMappings |-> mappings]
    ELSE LET wf == workflows[i]
             fullWorkflow == getWorkflow(wf.id)
             webhooks == extractWebhookPaths(fullWorkflow)
         IN  initialize_from_cacheListed(workflows, i + 1,
                 MapSet(cache, wf.id, [fullWorkflow EXCEPT !.name = wf.name]),
                 mappings \o [j \in 1 .. Len(webhooks) |->
                                 [path |-> webhooks[j],
                                  workflowId |-> wf.id,
                                  workflowName |-> wf.name]])

RECURSIVE initialize_from(_, _, _, _)
initialize_from(workflows, i, cache, mappings) ==
    IF i > Len(workflows)
    THEN [workflowCache |-> cache, webhookMappings |-> mappings]
    ELSE LET wf == workflows[i]
             fullWorkflow == getWorkflow(wf.id)
             webhooks == extractWebhookPaths(fullWorkflow)
         IN  initialize_from(workflows, i + 1,
                 MapSet(cache, wf.id, fullWorkflow),
                 mappings \o [j \in 1 .. Len(webhooks) |->
                                 [path |-> webhooks[j],
                                  workflowId |-> wf.id,
                                  workflowName |-> wf.name]])

\* the correlator's two fields after initialize() ran on (cache, mappings)
initialize(cache, mappings) == initialize_from(listWorkflows, 1, cache, mappings)

\* the Map getWorkflowNames returns, in insertion order
getWorkflowNames(cache) ==
    [i \in 1 .. Len(cache) |-> [key |-> cache[i].key, value |-> cache[i].value.name]]

NoMapping == [path |-> <<>>, workflowId |-> "", workflowName |-> ""]

\* no findWorkflowByWebhook call made from outside yet
NoLookup == [input |-> [origin |-> <<>>, path |-> <<>>, query |-> <<>>],
             url |-> <<>>, index |-> <<>>, path |-> <<>>, result |-> NoMapping,
             done |-> FALSE]

\* path.replace(/^\/webhook/, '').replace(/^\//, '')
NormalizePath(path) == StripPrefix(StripPrefix(path, Str_webhook), Str_slash)

\* the local variable path of findWorkflowByWebhook when the index is searched
NormalizeLookup(webhookUrl) ==
    Only({ NormalizePath(path) :
           path \in { IF UrlParses(webhookUrl) THEN UrlPathname(webhookUrl)
                      ELSE webhookUrl } })

MappingMatches(m, path) ==
    LET mappingPath == StripPrefix(m.path, Str_slash)
    IN  Includes(path, mappingPath) \/ Includes(mappingPath, path)

\* findWorkflowByWebhook returning the last mapping that matches
findWorkflowByWebhook_lastMatch(mappings, webhookUrl) ==
    Only({ LET hits == {i \in 1 .. Len(mappings) : MappingMatches(mappings[i], path)}
           IN  IF hits = {} THEN NoMapping
               ELSE mappings[CHOOSE i \in hits : \A j \in hits : i >= j] :
           path \in {NormalizeLookup(webhookUrl)} })

\* Array.prototype.find: the first mapping that matches, or undefined (NoMapping)
findWorkflowByWebhook(mappings, webhookUrl) ==
    Only({ LET hits == {i \in 1 .. Len(mappings) : MappingMatches(mappings[i], path)}
           IN  IF hits = {} THEN NoMapping
               ELSE mappings[CHOOSE i \in hits : \A j \in hits : i <= j] :
           path \in {NormalizeLookup(webhookUrl)} })

----------------------------------------------------------------------------
(* ExecutionCorrelator: the two scorers *)

Abs(x) == IF x < 0 THEN -x ELSE x

\* new Date(undefined).getTime(): not a number
NaN == -1

\* a < b on JavaScript numbers
JsLt(a, b) == a # NaN /\ b # NaN /\ a < b

\* a > b on JavaScript numbers
JsGt(a, b) == a # NaN /\ b # NaN /\ a > b

\* a + k on JavaScript numbers
JsPlus(a, k) == IF a = NaN THEN NaN ELSE a + k

\* Math.abs(a - b)
JsAbsDiff(a, b) == IF a = NaN \/ b = NaN THEN NaN ELSE Abs(a - b)

Min(a, b) == IF a < b THEN a ELSE b

\* Array.prototype.join('+')
RECURSIVE JoinPlus(_)
JoinPlus(methods) ==
    IF methods = <<>> THEN ""
    ELSE IF Len(methods) = 1 THEN methods[1]
    ELSE methods[1] \o "+" \o JoinPlus(Tail(methods))

\* String.prototype.split('-')
RECURSIVE SplitDash(_)
SplitDash(s) ==
    LET i == FirstOf(s, {"-"})
    IN  IF i > Len(s) THEN <<s>>
        ELSE <<SubSeq(s, 1, i - 1)>> \o SplitDash(DropFirst(s, i))

\* Array.prototype.join('-')
RECURSIVE JoinDash(_)
JoinDash(parts) ==
    IF parts = <<>> THEN <<>>
    ELSE IF Len(parts) = 1 THEN parts[1]
    ELSE parts[1] \o <<"-">> \o JoinDash(Tail(parts))

\* responseId.split('-').slice(0, 2).join('-')
ResponsePattern(responseId) == JoinDash(Take(SplitDash(responseId), 2))

\* one conditional "confidence += w; methods.push(name)"
Bump(score, cond, w, name) ==
    IF cond THEN [confidence |-> score.confidence + w,
                  methods |-> Append(score.methods, name)]
    ELSE score

\* WebhookTimestamp with inclusive limits
WebhookTimestamp_inclusive(score, timeDiff) ==
    IF timeDiff <= 500 THEN Bump(score, TRUE, 3, "timestamp_exact")
    ELSE IF timeDiff <= 2000 THEN Bump(score, TRUE, 2, "timestamp_close")
    ELSE IF timeDiff <= 5000 THEN Bump(score, TRUE, 1, "timestamp")
    ELSE score

\* the if / else-if cascade on timeDiff of scoreCorrelation
WebhookTimestamp(score, timeDiff) ==
    IF JsLt(timeDiff, 500) THEN Bump(score, TRUE, 3, "timestamp_exact")
    ELSE IF JsLt(timeDiff, 2000) THEN Bump(score, TRUE, 2, "timestamp_close")
    ELSE IF JsLt(timeDiff, 5000) THEN Bump(score, TRUE, 1, "timestamp")
    ELSE score

\* the signals scoreCorrelation adds up, in the order it evaluates them
WebhookSignals(parent, candidate, parentContext, httpCall) ==
    LET s0 == Bump([confidence |-> 0, methods |-> <<>>], TRUE, 3, "webhook_url")
        candidateStart == candidate.startedAt
        timeDiff == JsAbsDiff(candidateStart, httpCall.timestamp)
        s1 == WebhookTimestamp(s0, timeDiff)
        candidateContext == extractUserContext(candidate)
        s2 == Bump(s1, parentContext.userId # ""
                       /\ candidateContext.userId = parentContext.userId,
                   3, "user_id")
        s3 == Bump(s2, parentContext.chatId # ""
                       /\ candidateContext.chatId = parentContext.chatId,
                   2, "chat_id")
        s4 == Bump(s3, parentContext.correlationId # ""
                       /\ candidateContext.correlationId = parentContext.correlationId,
                   5, "correlation_id")
    IN  Bump(s4, parentContext.responseId # <<>>
                 /\ candidateContext.responseId # <<>>
                 /\ ResponsePattern(parentContext.responseId)
                      = ResponsePattern(candidateContext.responseId),
             1, "response_pattern")

\* scoreCorrelation without the final Math.min
scoreCorrelation_unclamped(parent, candidate, parentContext, httpCall) ==
    Only({ [confidence |-> s.confidence, method |-> JoinPlus(s.methods)] :
           s \in {WebhookSignals(parent, candidate, parentContext, httpCall)} })

scoreCorrelation(parent, candidate, parentContext, httpCall) ==
    Only({ [confidence |-> Min(s.confidence, 10), method |-> JoinPlus(s.methods)] :
           s \in {WebhookSignals(parent, candidate, parentContext, httpCall)} })

\* a sub-workflow pass in which a start within 2 s is worth 0.6
SubWorkflowTimestamp_decisive(score, timeDiff) ==
    IF JsLt(timeDiff, 2000) THEN Bump(score, TRUE, 6, "timestamp")
    ELSE IF JsLt(timeDiff, 5000) THEN Bump(score, TRUE, 2, "timestamp")
    ELSE score

\* the if / else-if cascade on timeDiff of the sub-workflow pass
SubWorkflowTimestamp(score, timeDiff) ==
    IF JsLt(timeDiff, 2000) THEN Bump(score, TRUE, 3, "timestamp")
    ELSE IF JsLt(timeDiff, 5000) THEN Bump(score, TRUE, 2, "timestamp")
    ELSE score

\* the sub-workflow scoring with the correlation-id signal of scoreCorrelation
scoreSubWorkflow_withCorrelationId(execStart, candidate, userContext) ==
    LET candidateContext == extractUserContext(candidate)
        timeDiff == JsAbsDiff(candidate.startedAt, execStart)
        s1 == SubWorkflowTimestamp([confidence |-> 0, methods |-> <<>>], timeDiff)
        s2 == Bump(s1, userContext.userId # ""
                       /\ candidateContext.userId = userContext.userId,
                   4, "user_id")
        s3 == Bump(s2, userContext.chatId # ""
                       /\ candidateContext.chatId = userContext.chatId,
                   3, "chat_id")
        s4 == Bump(s3, userContext.correlationId # ""
                       /\ candidateContext.correlationId = userContext.correlationId,
                   5, "correlation_id")
    IN  [confidence |-> s4.confidence, method |-> JoinPlus(s4.methods)]

\* the inline scoring of the sub-workflow pass
scoreSubWorkflow(execStart, candidate, userContext) ==
    LET candidateStart == candidate.startedAt
        candidateContext == extractUserContext(candidate)
        timeDiff == JsAbsDiff(candidateStart, execStart)
        s1 == SubWorkflowTimestamp([confidence |-> 0, methods |-> <<>>], timeDiff)
        s2 == Bump(s1, userContext.userId # ""
                       /\ candidateContext.userId = userContext.userId,
                   4, "user_id")
        s3 == Bump(s2, userContext.chatId # ""
                       /\ candidateContext.chatId = userContext.chatId,
                   3, "chat_id")
    IN  [confidence |-> s3.confidence, method |-> JoinPlus(s3.methods)]

----------------------------------------------------------------------------
(* ExecutionCorrelator: the correlation search *)

Limit_webhook == 10
Limit_subWorkflow == 5
Grace_webhook == 1000

\* the window test of the webhook-call pass (the candidate is kept)
\* a webhook-call window anchored at the root's start at every depth
InWebhookWindow_fromRoot(candidateStart, execStart) ==
    ~(JsLt(candidateStart, JsPlus(ds.execs[rootExecutionId].startedAt, -Grace_webhook))
        \/ JsGt(candidateStart, JsPlus(ds.execs[rootExecutionId].startedAt, timeWindowMs)))

InWebhookWindow(candidateStart, execStart) ==
    ~(JsLt(candidateStart, JsPlus(execStart, -Grace_webhook))
        \/ JsGt(candidateStart, JsPlus(execStart, timeWindowMs)))

\* the sub-workflow window with the grace period of the webhook-call pass
InSubWorkflowWindow_withGrace(candidateStart, execStart) ==
    ~(JsLt(candidateStart, JsPlus(execStart, -Grace_webhook))
        \/ JsGt(candidateStart, JsPlus(execStart, timeWindowMs)))

\* the window test of the sub-workflow pass (the candidate is kept)
InSubWorkflowWindow(candidateStart, execStart) ==
    ~(JsLt(candidateStart, execStart)
        \/ JsGt(candidateStart, JsPlus(execStart, timeWindowMs)))

\* acceptance at 0.5 and above
Accepted_atLeast(confidence) == confidence >= 5

\* the acceptance test of both passes
Accepted(confidence) == confidence > 5

\* the ids of the cached workflows that carry a sub-workflow trigger, in
\* cache order
RECURSIVE workflowsWithSubTrigger_from(_, _)
workflowsWithSubTrigger_from(cache, i) ==
    IF i > Len(cache) THEN <<>>
    ELSE (IF hasSubWorkflowTrigger(cache[i].value) THEN <<cache[i].key>> ELSE <<>>)
            \o workflowsWithSubTrigger_from(cache, i + 1)

workflowsWithSubTrigger == workflowsWithSubTrigger_from(workflowCache, 1)

\* a new activation of findCorrelatedExecutions, at the head of its first loop
Activation(execution, parentId, currentDepth) ==
    [execution |-> execution.id,
     parentId |-> parentId,
     currentDepth |-> currentDepth,
     execStart |-> execution.startedAt,
     userContext |-> extractUserContext(execution),
     httpCalls |-> extractHttpCalls(execution),
     phase |-> "calls",
     callIdx |-> 1,
     subIdx |-> 1,
     candidates |-> <<>>,
     candIdx |-> 1]

\* the call returned at once: nothing entered, nothing thrown
Returned(stk) == [stack |-> stk, entered |-> FALSE, thrown |-> ""]

\* new Date(NaN).toISOString()
RangeError == "RangeError: Invalid time value"

\* the call past its depth test: toISOString throws on an execStart that is
\* not a number, and otherwise the webhook-call pass of a new activation starts
Entered(stk, execution, parentId, currentDepth) ==
    IF execution.startedAt = NaN
    THEN [stack |-> <<>>, entered |-> TRUE, thrown |-> RangeError]
    ELSE [stack |-> Append(stk, Activation(execution, parentId, currentDepth)),
          entered |-> TRUE, thrown |-> ""]

\* findCorrelatedExecutions returning only beyond maxDepth
findCorrelatedExecutions_offByOne(stk, execution, parentId, currentDepth) ==
    IF currentDepth > maxDepth THEN Returned(stk)
    ELSE Entered(stk, execution, parentId, currentDepth)

\* a call of findCorrelatedExecutions: it returns at once at depth >= maxDepth
findCorrelatedExecutions(stk, execution, parentId, currentDepth) ==
    IF currentDepth >= maxDepth THEN Returned(stk)
    ELSE Entered(stk, execution, parentId, currentDepth)

\* what a correlateExecutions call hands its caller
Reply_results(value) == [kind |-> "results", value |-> value, error |-> ""]

Reply_error(error) == [kind |-> "error", value |-> <<>>, error |-> error]

\* an error caught in correlateExecutions, which returns the results so far
Throw_salvage(error) ==
    /\ stack' = <<>>
    /\ pc' = "done"
    /\ replies' = Append(replies, Reply_results(results))

\* an error thrown inside findCorrelatedExecutions: no activation and no
\* correlateExecutions catches it, the caller's await rejects with it
Throw(error) ==
    /\ stack' = <<>>
    /\ pc' = "failed"
    /\ replies' = Append(replies, Reply_error(error))

\* the effect of a call c of findCorrelatedExecutions on execution id
Call(c, id, entries) ==
    /\ expanded' = IF c.entered THEN Append(entries, id) ELSE entries
    /\ IF c.thrown = ""
       THEN stack' = c.stack /\ pc' = "search" /\ UNCHANGED replies
       ELSE Throw(c.thrown)

Top == stack[Len(stack)]

SetTop(stk, f) == [stk EXCEPT ![Len(stk)] = f]

TopExecution == ds.execs[Top.execution]

NoDecision ==
    [pass |-> "", parent |-> "", candidate |-> "", call |-> 0,
     outcome |-> "", confidence |-> 0, method |-> ""]

\* the window test and the scoring of a candidate that is not skipped as visited
Scored(d, inWindow, score) ==
    IF ~inWindow THEN [d EXCEPT !.outcome = "window"]
    ELSE [d EXCEPT !.outcome = IF Accepted(score.confidence)
                               THEN "accepted" ELSE "rejected",
                   !.confidence = score.confidence,
                   !.method = score.method]

\* Decision without the visited.has test
Decision_noVisitedCheck(pass, execution, candidate, call, inWindow, score) ==
    Scored([NoDecision EXCEPT !.pass = pass, !.parent = execution.id,
                              !.candidate = candidate.id, !.call = call],
           inWindow, score)

\* what one iteration of a candidate loop does with its candidate: skip it
\* (visited, or outside the window), or score it and accept it or not
Decision(pass, execution, candidate, call, inWindow, score) ==
    LET d == [NoDecision EXCEPT !.pass = pass, !.parent = execution.id,
                                !.candidate = candidate.id, !.call = call]
    IN  IF candidate.id \in visited THEN [d EXCEPT !.outcome = "visited"]
        ELSE Scored(d, inWindow, score)

\* a CorrelationResult naming the accepted candidate as its own parent
Result_ownParent(d, parentId, currentDepth) ==
    [execution |-> d.candidate, parentId |-> d.candidate,
     confidence |-> d.confidence, method |-> d.method,
     pass |-> d.pass, depth |-> currentDepth]

\* the CorrelationResult pushed for an accepted candidate; pass and depth
\* record which pass pushed it and at which depth (observation only)
Result(d, parentId, currentDepth) ==
    [execution |-> d.candidate, parentId |-> parentId,
     confidence |-> d.confidence, method |-> d.method,
     pass |-> d.pass, depth |-> currentDepth]

\* the push of a result and the recursive call for an accepted candidate
Accept(d, candidate, f) ==
    /\ results' = Append(results, Result(d, f.parentId, f.currentDepth))
    /\ \E c \in {findCorrelatedExecutions(SetTop(stack, f), candidate,
                                           candidate.id, f.currentDepth + 1)} :
            Call(c, candidate.id, expanded)

\* Iterate marking every scored candidate as visited, accepted or not
Iterate_markScored(d, candidate) ==
    LET f == [Top EXCEPT !.candIdx = @ + 1]
    IN  /\ last' = d
        /\ visited' = IF d.outcome \in {"accepted", "rejected"}
                      THEN visited \cup {candidate.id} ELSE visited
        /\ IF d.outcome = "accepted"
           THEN Accept(d, candidate, f)
           ELSE /\ stack' = SetTop(stack, f)
                /\ UNCHANGED <<results, pc, expanded, replies>>

\* Iterate looking at the same candidate again after skipping it as visited
Iterate_retryVisited(d, candidate) ==
    LET f == [Top EXCEPT !.candIdx = IF d.outcome = "visited" THEN @ ELSE @ + 1]
    IN  /\ last' = d
        /\ IF d.outcome = "accepted"
           THEN visited' = visited \cup {candidate.id} /\ Accept(d, candidate, f)
           ELSE /\ stack' = SetTop(stack, f)
                /\ UNCHANGED <<visited, results, pc, expanded, replies>>

\* the effect of one loop iteration on the search, the loop counter advanced
Iterate(d, candidate) ==
    LET f == [Top EXCEPT !.candIdx = @ + 1]
    IN  /\ last' = d
        /\ IF d.outcome = "accepted"
           THEN visited' = visited \cup {candidate.id} /\ Accept(d, candidate, f)
           ELSE /\ stack' = SetTop(stack, f)
                /\ UNCHANGED <<visited, results, pc, expanded, replies>>

Candidates(workflowId, limit) ==
    LET found == listExecutions(workflowId, limit)
    IN  [i \in 1 .. Len(found) |-> found[i].id]

Request(workflowId, limit) ==
    [workflowId |-> workflowId, limit |-> limit, includeData |-> TRUE]

\* correlator.initialize() called by the caller before the search
Initialize ==
    /\ pc = "idle"
    /\ LET built == initialize(workflowCache, webhookMappings)
       IN  /\ workflowCache' = built.workflowCache
           /\ webhookMappings' = built.webhookMappings
    /\ indexBuilds' = indexBuilds + 1
    /\ pc' = "initialized"
    /\ UNCHANGED <<ds, rootExecutionId, timeWindowMs, maxDepth, results, visited,
                   stack, requests, last, expanded, replies, failures, lookup,
                   printed, toolCalls>>

\* a further initialize() call on a correlator that has been initialized
InitializeAgain(builds) ==
    /\ pc = "initialized"
    /\ indexBuilds < builds
    /\ LET built == initialize(workflowCache, webhookMappings)
       IN  /\ workflowCache' = built.workflowCache
           /\ webhookMappings' = built.webhookMappings
    /\ indexBuilds' = indexBuilds + 1
    /\ UNCHANGED <<ds, pc, rootExecutionId, timeWindowMs, maxDepth, results,
                   visited, stack, requests, last, expanded, replies, failures,
                   lookup, printed, toolCalls>>

\* correlateExecutions starting with an empty visited-set
StartSearch_rootUnvisited ==
    /\ LET built == IF Len(webhookMappings) = 0
                    THEN initialize(workflowCache, webhookMappings)
                    ELSE [workflowCache |-> workflowCache,
                          webhookMappings |-> webhookMappings]
           rootExecution == getExecution(rootExecutionId)
       IN  /\ workflowCache' = built.workflowCache
           /\ webhookMappings' = built.webhookMappings
           /\ indexBuilds' = IF Len(webhookMappings) = 0
                             THEN indexBuilds + 1 ELSE indexBuilds
           /\ results' = <<>>
           /\ visited' = {}
           /\ \E c \in {findCorrelatedExecutions(<<>>, rootExecution,
                                                  rootExecutionId, 0)} :
                   Call(c, rootExecutionId, <<>>)
    /\ UNCHANGED <<ds, rootExecutionId, timeWindowMs, maxDepth, requests, last,
                   failures, lookup,
                   printed, toolCalls>>

\* correlateExecutions keeping the visited-set of the previous call
StartSearch_keepVisited ==
    /\ LET built == IF Len(webhookMappings) = 0
                    THEN initialize(workflowCache, webhookMappings)
                    ELSE [workflowCache |-> workflowCache,
                          webhookMappings |-> webhookMappings]
           rootExecution == getExecution(rootExecutionId)
       IN  /\ workflowCache' = built.workflowCache
           /\ webhookMappings' = built.webhookMappings
           /\ indexBuilds' = IF Len(webhookMappings) = 0
                             THEN indexBuilds + 1 ELSE indexBuilds
           /\ results' = <<>>
           /\ visited' = visited \cup {rootExecutionId}
           /\ \E c \in {findCorrelatedExecutions(<<>>, rootExecution,
                                                  rootExecutionId, 0)} :
                   Call(c, rootExecutionId, <<>>)
    /\ UNCHANGED <<ds, rootExecutionId, timeWindowMs, maxDepth, requests, last,
                   failures, lookup,
                   printed, toolCalls>>

\* correlateExecutions up to its call of findCorrelatedExecutions on the root
StartSearch ==
    /\ LET built == IF Len(webhookMappings) = 0
                    THEN initialize(workflowCache, webhookMappings)
                    ELSE [workflowCache |-> workflowCache,
                          webhookMappings |-> webhookMappings]
           rootExecution == getExecution(rootExecutionId)
       IN  /\ workflowCache' = built.workflowCache
           /\ webhookMappings' = built.webhookMappings
           /\ indexBuilds' = IF Len(webhookMappings) = 0
                             THEN indexBuilds + 1 ELSE indexBuilds
           /\ results' = <<>>
           /\ visited' = {rootExecutionId}
           /\ \E c \in {findCorrelatedExecutions(<<>>, rootExecution,
                                                  rootExecutionId, 0)} :
                   Call(c, rootExecutionId, <<>>)
    /\ UNCHANGED <<ds, rootExecutionId, timeWindowMs, maxDepth, requests, last,
                   failures, lookup,
                   printed, toolCalls>>

\* the first correlateExecutions call on the correlator
CorrelateExecutions ==
    /\ pc \in {"idle", "initialized"}
    /\ StartSearch

\* an unmapped call ending the loop over httpCalls
SkipCall_break ==
    /\ stack' = SetTop(stack, [Top EXCEPT !.phase = "subs", !.subIdx = 1])
    /\ UNCHANGED requests

\* if (!mapping) continue
SkipCall ==
    /\ stack' = SetTop(stack, [Top EXCEPT !.callIdx = @ + 1])
    /\ UNCHANGED requests

\* the head of the loop over httpCalls: resolve the call and list the
\* executions of the workflow it maps to; after the last call, go on to the
\* sub-workflow pass
NextHttpCall ==
    /\ pc = "search" /\ stack # <<>> /\ Top.phase = "calls"
    /\ LET httpCalls == Top.httpCalls
       IN  IF Top.callIdx > Len(httpCalls)
           THEN /\ stack' = SetTop(stack, [Top EXCEPT !.phase = "subs", !.subIdx = 1])
                /\ UNCHANGED requests
           ELSE \E mapping \in {findWorkflowByWebhook(webhookMappings,
                                                      httpCalls[Top.callIdx].url)} :
                    IF mapping = NoMapping
                    THEN SkipCall
                    ELSE /\ stack' = SetTop(stack,
                                [Top EXCEPT !.phase = "webCands",
                                            !.candidates = Candidates(mapping.workflowId,
                                                                      Limit_webhook),
                                            !.candIdx = 1])
                         /\ requests' = Append(requests,
                                Request(mapping.workflowId, Limit_webhook))
    /\ UNCHANGED <<ds, webhookMappings, workflowCache, pc, rootExecutionId,
                   timeWindowMs, maxDepth, results, visited, last, indexBuilds,
                   expanded, replies, failures, lookup,
                   printed, toolCalls>>

\* one iteration of the candidate loop of the webhook-call pass; after the
\* last candidate, back to the loop over httpCalls
WebhookCandidate ==
    /\ pc = "search" /\ stack # <<>> /\ Top.phase = "webCands"
    /\ IF Top.candIdx > Len(Top.candidates)
       THEN /\ stack' = SetTop(stack, [Top EXCEPT !.phase = "calls", !.callIdx = @ + 1,
                                                  !.candidates = <<>>, !.candIdx = 1])
            /\ UNCHANGED <<results, visited, last, pc, expanded, replies>>
       ELSE LET execution == TopExecution
                candidate == ds.execs[Top.candidates[Top.candIdx]]
                call == Top.httpCalls[Top.callIdx]
            IN  \E d \in {Decision("webhook", execution, candidate, Top.callIdx,
                              InWebhookWindow(candidate.startedAt, Top.execStart),
                              scoreCorrelation(execution, candidate,
                                               Top.userContext, call))} :
                    Iterate(d, candidate)
    /\ UNCHANGED <<ds, webhookMappings, workflowCache, rootExecutionId,
                   timeWindowMs, maxDepth, requests, indexBuilds, failures, lookup,
                   printed, toolCalls>>

\* NextSubWorkflow listing the executions of the execution's own workflow too
NextSubWorkflow_noSkip ==
    /\ pc = "search" /\ stack # <<>> /\ Top.phase = "subs"
    /\ LET subs == workflowsWithSubTrigger
       IN  IF Top.subIdx > Len(subs)
           THEN /\ stack' = SubSeq(stack, 1, Len(stack) - 1)
                /\ UNCHANGED requests
           ELSE LET workflowId == subs[Top.subIdx]
                IN  IF FALSE
                    THEN /\ stack' = SetTop(stack, [Top EXCEPT !.subIdx = @ + 1])
                         /\ UNCHANGED requests
                    ELSE /\ stack' = SetTop(stack,
                                [Top EXCEPT !.phase = "subCands",
                                            !.candidates = Candidates(workflowId,
                                                                      Limit_subWorkflow),
                                            !.candIdx = 1])
                         /\ requests' = Append(requests,
                                Request(workflowId, Limit_subWorkflow))
    /\ UNCHANGED <<ds, webhookMappings, workflowCache, pc, rootExecutionId,
                   timeWindowMs, maxDepth, results, visited, last, indexBuilds,
                   expanded, replies, failures, lookup,
                   printed, toolCalls>>

\* the head of the loop over workflowsWithSubTrigger: skip the execution's own
\* workflow, list the executions of any other; after the last one the
\* activation returns
NextSubWorkflow ==
    /\ pc = "search" /\ stack # <<>> /\ Top.phase = "subs"
    /\ LET subs == workflowsWithSubTrigger
       IN  IF Top.subIdx > Len(subs)
           THEN /\ stack' = SubSeq(stack, 1, Len(stack) - 1)
                /\ UNCHANGED requests
           ELSE LET workflowId == subs[Top.subIdx]
                IN  IF workflowId = TopExecution.workflowId
                    THEN /\ stack' = SetTop(stack, [Top EXCEPT !.subIdx = @ + 1])
                         /\ UNCHANGED requests
                    ELSE /\ stack' = SetTop(stack,
                                [Top EXCEPT !.phase = "subCands",
                                            !.candidates = Candidates(workflowId,
                                                                      Limit_subWorkflow),
                                            !.candIdx = 1])
                         /\ requests' = Append(requests,
                                Request(workflowId, Limit_subWorkflow))
    /\ UNCHANGED <<ds, webhookMappings, workflowCache, pc, rootExecutionId,
                   timeWindowMs, maxDepth, results, visited, last, indexBuilds,
                   expanded, replies, failures, lookup,
                   printed, toolCalls>>

\* one iteration of the candidate loop of the sub-workflow pass; after the
\* last candidate, back to the loop over workflowsWithSubTrigger
SubWorkflowCandidate ==
    /\ pc = "search" /\ stack # <<>> /\ Top.phase = "subCands"
    /\ IF Top.candIdx > Len(Top.candidates)
       THEN /\ stack' = SetTop(stack, [Top EXCEPT !.phase = "subs", !.subIdx = @ + 1,
                                                  !.candidates = <<>>, !.candIdx = 1])
            /\ UNCHANGED <<results, visited, last, pc, expanded, replies>>
       ELSE LET execution == TopExecution
                candidate == ds.execs[Top.candidates[Top.candIdx]]
            IN  \E d \in {Decision("sub", execution, candidate, 0,
                              InSubWorkflowWindow(candidate.startedAt, Top.execStart),
                              scoreSubWorkflow(Top.execStart, candidate,
                                               Top.userContext))} :
                    Iterate(d, candidate)
    /\ UNCHANGED <<ds, webhookMappings, workflowCache, rootExecutionId,
                   timeWindowMs, maxDepth, requests, indexBuilds, failures, lookup,
                   printed, toolCalls>>

\* Array.prototype.sort by descending confidence (stable)
RECURSIVE SortByConfidence(_)
SortByConfidence(rs) ==
    IF rs = <<>> THEN <<>>
    ELSE LET rest == SortByConfidence(Tail(rs))
             k == Cardinality({i \in 1 .. Len(rest) : rest[i].confidence > Head(rs).confidence})
         IN  SubSeq(rest, 1, k) \o <<Head(rs)>> \o SubSeq(rest, k + 1, Len(rest))

\* Return handing out the results ordered by confidence
Return_sorted ==
    /\ pc = "search" /\ stack = <<>>
    /\ pc' = "done"
    /\ results' = SortByConfidence(results)
    /\ replies' = Append(replies, Reply_results(results'))
    /\ UNCHANGED <<ds, webhookMappings, workflowCache, rootExecutionId, timeWindowMs,
                   maxDepth, visited, stack, requests, last, indexBuilds,
                   expanded, failures, lookup,
                   printed, toolCalls>>

\* correlateExecutions returns results once the root activation has returned
Return ==
    /\ pc = "search" /\ stack = <<>>
    /\ pc' = "done"
    /\ replies' = Append(replies, Reply_results(results))
    /\ UNCHANGED <<ds, webhookMappings, workflowCache, rootExecutionId, timeWindowMs,
                   maxDepth, results, visited, stack, requests, last, indexBuilds,
                   expanded, failures, lookup,
                   printed, toolCalls>>

Next ==
    \/ Initialize
    \/ CorrelateExecutions
    \/ NextHttpCall
    \/ WebhookCandidate
    \/ NextSubWorkflow
    \/ SubWorkflowCandidate
    \/ Return

NoRequest == [workflowId |-> "", limit |-> 0, includeData |-> FALSE]

\* the listExecutions request the search issues in its next step, if any
PendingRequest ==
    IF pc = "search" /\ stack # <<>> /\ Top.phase = "calls"
       /\ Top.callIdx <= Len(Top.httpCalls)
    THEN LET mapping == findWorkflowByWebhook(webhookMappings,
                                              Top.httpCalls[Top.callIdx].url)
         IN  IF mapping = NoMapping THEN NoRequest
             ELSE Request(mapping.workflowId, Limit_webhook)
    ELSE IF pc = "search" /\ stack # <<>> /\ Top.phase = "subs"
            /\ Top.subIdx <= Len(workflowsWithSubTrigger)
            /\ workflowsWithSubTrigger[Top.subIdx] # TopExecution.workflowId
    THEN Request(workflowsWithSubTrigger[Top.subIdx], Limit_subWorkflow)
    ELSE NoRequest

\* what the HTTP client rejects a request with
RequestErrors == {"Request failed with status code 500", "timeout of 30000ms exceeded"}

\* await this.client.listExecutions(...) rejecting in either pass
ListExecutionsFails ==
    /\ \E request \in {PendingRequest} :
        /\ request # NoRequest
        /\ requests' = Append(requests, request)
    /\ \E error \in RequestErrors :
        /\ failures' = failures \cup {[at |-> Len(requests) + 1, error |-> error]}
        /\ Throw(error)
    /\ UNCHANGED <<ds, webhookMappings, workflowCache, rootExecutionId,
                   timeWindowMs, maxDepth, results, visited, last, indexBuilds,
                   expanded, lookup,
                   printed, toolCalls>>

\* a further correlateExecutions call on the same correlator, made once the
\* previous one has returned or failed
CorrelateAgain(calls) ==
    /\ pc \in {"done", "failed"}
    /\ Len(replies) < calls
    /\ StartSearch

\* correlateExecutions on a correlator with an empty index whose
\* await this.initialize() rejects: getWorkflow fails for the k-th listed
\* workflow, after the workflows before it were cached and indexed
InitializeFails(calls) ==
    /\ pc \in {"idle", "done", "failed"}
    /\ Len(replies) < calls
    /\ Len(webhookMappings) = 0
    /\ \E k \in 1 .. Len(listWorkflows) :
        LET built == initialize_from(SubSeq(listWorkflows, 1, k - 1), 1,
                                     workflowCache, webhookMappings)
        IN  /\ workflowCache' = built.workflowCache
            /\ webhookMappings' = built.webhookMappings
    /\ \E error \in RequestErrors : Throw(error)
    /\ UNCHANGED <<ds, rootExecutionId, timeWindowMs, maxDepth, results, visited,
                   requests, last, indexBuilds, expanded, failures, lookup,
                   printed, toolCalls>>

----------------------------------------------------------------------------
(* Identifiers in URL paths: the validator, the client and the tool handlers *)

MaxIdLength == 100

Letters ==
    { "a","b","c","d","e","f","g","h","i","j","k","l","m","n","o","p","q","r",
      "s","t","u","v","w","x","y","z",
      "A","B","C","D","E","F","G","H","I","J","K","L","M","N","O","P","Q","R",
      "S","T","U","V","W","X","Y","Z" }

Digits == { "0","1","2","3","4","5","6","7","8","9" }

\* /^[a-zA-Z0-9_-]+$/.test(id), id a sequence of characters
IdPattern(id) ==
    /\ Len(id) >= 1
    /\ \A i \in 1 .. Len(id) : id[i] \in Letters \cup Digits \cup {"_", "-"}

\* validateId with a pattern that matches anywhere in the id
validateId_unanchored(id, idType) ==
    IF ~\E i \in 1 .. Len(id) : id[i] \in Letters \cup Digits \cup {"_", "-"}
    THEN "Invalid " \o idType \o ": contains disallowed characters. "
            \o "Only alphanumeric, hyphens, and underscores are permitted."
    ELSE IF Len(id) > MaxIdLength
    THEN "Invalid " \o idType \o ": exceeds maximum length of 100 characters"
    ELSE IF Len(id) = 0
    THEN "Invalid " \o idType \o ": cannot be empty"
    ELSE ""

\* validateId: the message of the Error it throws, "" when it returns
validateId(id, idType) ==
    IF ~IdPattern(id)
    THEN "Invalid " \o idType \o ": contains disallowed characters. "
            \o "Only alphanumeric, hyphens, and underscores are permitted."
    ELSE IF Len(id) > MaxIdLength
    THEN "Invalid " \o idType \o ": exceeds maximum length of 100 characters"
    ELSE IF Len(id) = 0
    THEN "Invalid " \o idType \o ": cannot be empty"
    ELSE ""

validateExecutionId(id) == validateId(id, "Execution ID")

validateWorkflowId(id) == validateId(id, "Workflow ID")

\* a GET request of the client: the resource and the id put in the URL path
Get(resource, id) == [resource |-> resource, hasId |-> TRUE, id |-> id]

GetList(resource) == [resource |-> resource, hasId |-> FALSE, id |-> << >>]

NotFound == "Request failed with status code 404"

\* the outcome of a client call: the requests sent so far and the message of
\* the error thrown, "" when the call returned
Outcome(sent, thrown) == [sent |-> sent, thrown |-> thrown]

\* N8nClient.getExecution after the requests in sent
client_getExecution(sent, executionId) ==
    IF validateExecutionId(executionId) # ""
    THEN Outcome(sent, validateExecutionId(executionId))
    ELSE Outcome(Append(sent, Get("executions", executionId)),
                 IF executionId \in DOMAIN ds.execs THEN "" ELSE NotFound)

\* N8nClient.getWorkflow after the requests in sent
client_getWorkflow(sent, workflowId) ==
    IF validateWorkflowId(workflowId) # ""
    THEN Outcome(sent, validateWorkflowId(workflowId))
    ELSE Outcome(Append(sent, Get("workflows", workflowId)),
                 IF workflowId \in DOMAIN ds.definitions THEN "" ELSE NotFound)

\* the requests of ExecutionCorrelator.initialize from the i-th listed
\* workflow on: one getWorkflow each, until one throws
RECURSIVE initialize_requests(_, _, _)
initialize_requests(sent, workflows, i) ==
    IF i > Len(workflows) THEN Outcome(sent, "")
    ELSE LET o == client_getWorkflow(sent, workflows[i].id)
         IN  IF o.thrown # "" THEN o
             ELSE initialize_requests(o.sent, workflows, i + 1)

\* what a tool or client call did: its argument, the requests it sent and
\* the text it returned or the message it threw
ToolCall(op, id, sent, failed, text) ==
    [op |-> op, id |-> id, sent |-> sent, failed |-> failed, text |-> text]

\* handleGetExecutionTrace
handleGetExecutionTrace(executionId) ==
    LET prefix == "Error fetching execution trace: "
        op == "get_execution_trace"
    IN  IF validateExecutionId(executionId) # ""
        THEN ToolCall(op, executionId, << >>, TRUE,
                      prefix \o validateExecutionId(executionId))
        ELSE LET e == client_getExecution(<< >>, executionId)
             IN  IF e.thrown # ""
                 THEN ToolCall(op, executionId, e.sent, TRUE, prefix \o e.thrown)
                 ELSE LET w == client_getWorkflow(e.sent,
                                                  ds.execs[executionId].workflowId)
                      IN  ToolCall(op, executionId, w.sent, FALSE, "trace")

\* handleGetCorrelatedExecutions; the search itself sends listExecutions
\* requests only, which carry no id in the URL path
handleGetCorrelatedExecutions(executionId) ==
    LET prefix == "Error finding correlated executions: "
        op == "get_correlated_executions"
    IN  IF validateExecutionId(executionId) # ""
        THEN ToolCall(op, executionId, << >>, TRUE,
                      prefix \o validateExecutionId(executionId))
        ELSE LET b == initialize_requests(<< GetList("workflows") >>, listWorkflows, 1)
                 e == client_getExecution(b.sent, executionId)
                 r == client_getExecution(e.sent, executionId)
             IN  IF b.thrown # ""
                 THEN ToolCall(op, executionId, b.sent, TRUE, prefix \o b.thrown)
                 ELSE IF e.thrown # ""
                 THEN ToolCall(op, executionId, e.sent, TRUE, prefix \o e.thrown)
                 ELSE ToolCall(op, executionId, r.sent, FALSE, "tree")

\* a call of the get_execution_trace tool
HandleGetExecutionTrace(ids, n) ==
    /\ Len(toolCalls) < n
    /\ \E executionId \in ids :
        toolCalls' = Append(toolCalls, handleGetExecutionTrace(executionId))
    /\ UNCHANGED <<ds, webhookMappings, workflowCache, pc, rootExecutionId,
                   timeWindowMs, maxDepth, results, visited, stack, requests,
                   last, indexBuilds, expanded, replies, failures, lookup,
                   printed>>

\* a call of the get_correlated_executions tool
HandleGetCorrelatedExecutions(ids, n) ==
    /\ Len(toolCalls) < n
    /\ \E executionId \in ids :
        toolCalls' = Append(toolCalls, handleGetCorrelatedExecutions(executionId))
    /\ UNCHANGED <<ds, webhookMappings, workflowCache, pc, rootExecutionId,
                   timeWindowMs, maxDepth, results, visited, stack, requests,
                   last, indexBuilds, expanded, replies, failures, lookup,
                   printed>>

\* a call of N8nClient.getExecution by any other caller
GetExecution(ids, n) ==
    /\ Len(toolCalls) < n
    /\ \E executionId \in ids :
        \E o \in {client_getExecution(<< >>, executionId)} :
            toolCalls' = Append(toolCalls,
                ToolCall("getExecution", executionId, o.sent, o.thrown # "", o.thrown))
    /\ UNCHANGED <<ds, webhookMappings, workflowCache, pc, rootExecutionId,
                   timeWindowMs, maxDepth, results, visited, stack, requests,
                   last, indexBuilds, expanded, replies, failures, lookup,
                   printed>>

\* a call of N8nClient.getWorkflow by any other caller
GetWorkflow(ids, n) ==
    /\ Len(toolCalls) < n
    /\ \E workflowId \in ids :
        \E o \in {client_getWorkflow(<< >>, workflowId)} :
            toolCalls' = Append(toolCalls,
                ToolCall("getWorkflow", workflowId, o.sent, o.thrown # "", o.thrown))
    /\ UNCHANGED <<ds, webhookMappings, workflowCache, pc, rootExecutionId,
                   timeWindowMs, maxDepth, results, visited, stack, requests,
                   last, indexBuilds, expanded, replies, failures, lookup,
                   printed>>

\* a call of findWorkflowByWebhook on the correlator from outside a search
FindWorkflowByWebhook(inputs) ==
    /\ pc \in {"idle", "initialized"}
    /\ \E input \in inputs :
        \E webhookUrl \in {input.origin \o input.path \o input.query} :
            lookup' = [input |-> input,
                       url |-> webhookUrl,
                       index |-> webhookMappings,
                       path |-> NormalizeLookup(webhookUrl),
                       result |-> findWorkflowByWebhook(webhookMappings, webhookUrl),
                       done |-> TRUE]
    /\ UNCHANGED <<ds, webhookMappings, workflowCache, pc, rootExecutionId,
                   timeWindowMs, maxDepth, results, visited, stack, requests,
                   last, indexBuilds, expanded, replies, failures, printed, toolCalls>>

\* the lines of printChildren(parentId, indent), as the execution ids they
\* show; a recursion deeper than there are results does not return
RECURSIVE printChildren(_, _, _)
printChildren(correlated, parentId, fuel) ==
    LET children == SelectSeq(correlated, LAMBDA c : c.parentId = parentId)
        line(i) == IF fuel = 0 THEN << "RangeError" >>
                   ELSE << children[i].execution >>
                          \o printChildren(correlated, children[i].execution, fuel - 1)
        upTo[i \in 0 .. Len(children)] ==
            IF i = 0 THEN << >> ELSE upTo[i - 1] \o line(i)
    IN  upTo[Len(children)]

\* formatCorrelationTree called by the handler on what the search returned
FormatCorrelationTree ==
    /\ pc = "done"
    /\ ~printed.done
    /\ printed' = [done |-> TRUE,
                   lines |-> printChildren(results, rootExecutionId, Len(results) + 1)]
    /\ UNCHANGED <<ds, webhookMappings, workflowCache, pc, rootExecutionId,
                   timeWindowMs, maxDepth, results, visited, stack, requests,
                   last, indexBuilds, expanded, replies, failures, lookup,
                   toolCalls>>

----------------------------------------------------------------------------
(* Data sources the search is run against *)

MaxDepthBound == 2

Url_agent == Str_https \o <<"h">> \o Str_webhook \o <<"/","a","g">>
Url_intake == Str_https \o <<"h">> \o Str_webhook \o <<"/","i","n">>
Url_unknown == Str_https \o <<"h">> \o Str_webhook \o <<"/","z","z">>

EmptyBody == [user_id |-> "", chat_id |-> "", correlation_id |-> "", response_id |-> <<>>]

Json(url, user, chat, corr, resp) ==
    [url |-> url, requestUrl |-> <<>>, user_id |-> user, chat_id |-> chat,
     correlation_id |-> corr, response_id |-> resp, body |-> EmptyBody]

Run(node, startTime, json) ==
    [node |-> node, startTime |-> startTime, hasJson |-> TRUE, json |-> json]

Node(type, path) == [type |-> type, path |-> path]

\* three active workflows: the orchestrator (a webhook), an agent (a webhook
\* and a sub-workflow trigger) and a tool (a sub-workflow trigger)
Workflows ==
    << [id |-> "W1", name |-> "Orchestrator",
        nodes |-> << Node(NodeType_webhook, <<"i","n">>),
                     Node("n8n-nodes-base.httpRequest", <<>>) >>],
       [id |-> "W2", name |-> "Agent",
        nodes |-> << Node(NodeType_webhook, <<"/","a","g">>),
                     Node(NodeType_executeWorkflowTrigger, <<>>) >>],
       [id |-> "W3", name |-> "Tool",
        nodes |-> << Node(NodeType_executeWorkflowTrigger, <<>>) >>] >>

WorkflowIds == {Workflows[i].id : i \in 1 .. Len(Workflows)}

Definitions ==
    [w \in WorkflowIds |-> Workflows[CHOOSE i \in 1 .. Len(Workflows) : Workflows[i].id = w]]

Summaries == [i \in 1 .. Len(Workflows) |-> [id |-> Workflows[i].id, name |-> Workflows[i].name]]

\* the trigger payload of an execution, and the HTTP Request runs after it
Trigger(at, user, chat) == Run("Trigger", at, Json(<<>>, user, chat, "", <<>>))

HttpRun(at, url) == Run("HTTP Request", at, Json(url, "", "", "", <<>>))

Execution(id, workflowId, startedAt, runData) ==
    [id |-> id, workflowId |-> workflowId, startedAt |-> startedAt, runData |-> runData]

RootStart == 10000

\* the root execution: user u1 in chat c1, started at RootStart
RootRuns ==
    { << Trigger(RootStart, "u1", "c1"), HttpRun(RootStart + 200, Url_agent) >>,
      << Trigger(RootStart, "u1", "c1"), HttpRun(RootStart + 100, Url_unknown),
         HttpRun(RootStart + 200, Url_agent) >>,
      << Trigger(RootStart, "u1", "c1"), HttpRun(RootStart + 200, Url_agent),
         HttpRun(RootStart + 4000, Url_agent) >> }

\* what a non-root execution can look like: when it started, whose request it
\* served, and whether it called a webhook itself
Profile(startedAt, user, chat, urls) ==
    [startedAt |-> startedAt,
     runData |-> << Trigger(startedAt, user, chat) >>
                    \o [i \in 1 .. Len(urls) |-> HttpRun(startedAt + 200, urls[i])]]

AgentProfiles ==
    { Profile(RootStart + 300, "u1", "c1", << Url_agent >>),
      Profile(RootStart + 300, "u1", "c1", << Url_intake >>),
      Profile(RootStart + 300, "", "", << >>),
      Profile(RootStart + 1500, "", "", << >>),
      Profile(RootStart + 4000, "", "c1", << Url_agent >>),
      Profile(RootStart - 1000, "u1", "c1", << >>),
      Profile(RootStart - 1001, "u1", "c1", << >>),
      Profile(RootStart + 6000, "u1", "c1", << >>),
      Profile(RootStart + 6001, "u1", "c1", << >>) }

ToolProfiles ==
    { Profile(RootStart, "u1", "", << >>),
      Profile(RootStart - 1, "u1", "c1", << >>),
      Profile(RootStart + 300, "u1", "c1", << Url_agent >>),
      Profile(RootStart + 2000, "", "c1", << >>),
      Profile(RootStart + 6000, "u1", "c1", << >>),
      Profile(RootStart + 6001, "u1", "c1", << >>) }

TimeWindows == {6000}

\* what GET /executions answers per workflow: the agent's executions in either
\* order or with a repeated entry, the tool's alone or with an agent execution
Listings ==
    { [W1 |-> <<"e0">>, W2 |-> l2, W3 |-> l3] :
        l2 \in { <<"e1", "e2">>, <<"e2", "e1">>, <<"e1", "e2", "e1">> },
        l3 \in { <<"e3">>, <<"e3", "e2">> } }

DataSources ==
    { [workflows |-> Summaries,
       definitions |-> Definitions,
       listing |-> l,
       execs |-> [e0 |-> Execution("e0", "W1", RootStart, r0),
                  e1 |-> Execution("e1", "W2", p1.startedAt, p1.runData),
                  e2 |-> Execution("e2", "W2", p2.startedAt, p2.runData),
                  e3 |-> Execution("e3", "W3", p3.startedAt, p3.runData)]] :
        l \in Listings, r0 \in RootRuns, p1 \in AgentProfiles, p2 \in AgentProfiles,
        p3 \in ToolProfiles }

\* a fresh correlator, before any call
Fresh ==
    /\ webhookMappings = <<>>
    /\ workflowCache = <<>>
    /\ pc = "idle"
    /\ results = <<>>
    /\ visited = {}
    /\ stack = <<>>
    /\ requests = <<>>
    /\ last = NoDecision
    /\ indexBuilds = 0
    /\ expanded = <<>>
    /\ replies = <<>>
    /\ failures = {}
    /\ lookup = NoLookup
    /\ printed = [done |-> FALSE, lines |-> << >>]
    /\ toolCalls = << >>

Init ==
    /\ ds \in DataSources
    /\ rootExecutionId = "e0"
    /\ timeWindowMs \in TimeWindows
    /\ maxDepth \in 0 .. MaxDepthBound
    /\ Fresh

Spec == Init /\ [][Next]_vars

----------------------------------------------------------------------------
(* Inputs of the two scorers: one parent, one candidate *)

ParentContexts ==
    { Json(<<>>, u, c, k, r) :
        u \in {"", "u1"}, c \in {"", "c1"}, k \in {"", "k1"},
        r \in { <<>>, <<"R","-","T","-","1">>, <<"R">> } }

CandidateContexts ==
    { Json(<<>>, u, c, k, r) :
        u \in {"", "u1", "u2"}, c \in {"", "c1"}, k \in {"", "k1"},
        r \in { <<>>, <<"R","-","T","-","2">>, <<"R","-","U","-","1">>, <<"R">> } }

\* candidate start times relative to RootStart; the HTTP call is at RootStart + 200
CandidateOffsets ==
    { -1000, -300, -299, 0, 200, 500, 699, 700, 1999, 2000, 2199, 2200, 4200,
      4999, 5000, 5199, 5200 }

\* the root calls the agent's webhook 200 ms after its start; the candidate
\* is an execution of the agent, reached by that call, or an execution of the
\* tool, reached by the sub-workflow pass
ScoreSources ==
    { [workflows |-> Summaries,
       definitions |-> Definitions,
       listing |-> IF wf = "W2"
                   THEN [W1 |-> <<"e0">>, W2 |-> <<"e1">>, W3 |-> << >>]
                   ELSE [W1 |-> <<"e0">>, W2 |-> << >>, W3 |-> <<"e1">>],
       execs |-> [e0 |-> Execution("e0", "W1", RootStart,
                            << Run("Trigger", RootStart, pj),
                               HttpRun(RootStart + 200, Url_agent) >>),
                  e1 |-> Execution("e1", wf, RootStart + d,
                            << Run("Trigger", RootStart + d, cj) >>)]] :
        wf \in {"W2", "W3"}, pj \in ParentContexts, cj \in CandidateContexts,
        d \in CandidateOffsets }

InitScore ==
    /\ ds \in ScoreSources
    /\ rootExecutionId = "e0"
    /\ timeWindowMs \in TimeWindows
    /\ maxDepth = 1
    /\ Fresh

ScoreSpec == InitScore /\ [][Next]_vars

----------------------------------------------------------------------------
(* Data sources with cycles, and a search that is always continued *)

CycleAgentProfiles ==
    { Profile(RootStart + 300, "u1", "c1", << Url_agent >>),
      Profile(RootStart + 300, "u1", "c1", << Url_intake >>) }

CycleToolProfiles ==
    { Profile(RootStart + 300, "u1", "c1", << Url_agent >>),
      Profile(RootStart, "u1", "", << >>) }

CycleSources ==
    { d \in DataSources :
        /\ [startedAt |-> d.execs["e1"].startedAt, runData |-> d.execs["e1"].runData]
              \in CycleAgentProfiles
        /\ [startedAt |-> d.execs["e2"].startedAt, runData |-> d.execs["e2"].runData]
              \in CycleAgentProfiles
        /\ [startedAt |-> d.execs["e3"].startedAt, runData |-> d.execs["e3"].runData]
              \in CycleToolProfiles }

InitCycle ==
    /\ ds \in CycleSources
    /\ rootExecutionId \in {"e0", "e3"}
    /\ timeWindowMs \in TimeWindows
    /\ maxDepth \in 0 .. MaxDepthBound
    /\ Fresh

\* every call of the data source returns and the awaiting code is resumed
LiveSpec == InitCycle /\ [][Next]_vars /\ WF_vars(Next)

----------------------------------------------------------------------------
(* Webhook lookups on indexes of two declared paths *)

Str_origin == Str_https \o <<"h">>
Str_plainOrigin == Str_http \o <<"h">>

\* parameters.path of the webhook nodes of the orchestrator and the agent
WebhookPaths ==
    { <<"i","n">>, <<"/","a","g">>, <<"a","g","e","n","t">>, <<"/","/","a","g">>,
      <<"/">> }

LookupWorkflows(p1, p2) ==
    [W1 |-> [Workflows[1] EXCEPT !.nodes[1].path = p1],
     W2 |-> [Workflows[2] EXCEPT !.nodes[1].path = p2],
     W3 |-> Workflows[3]]

\* a listing of the two active workflows under the names they had when the
\* listing was answered
ListedBefore ==
    << [id |-> "W2", name |-> "Agent (draft)"],
       [id |-> "W1", name |-> "Orchestrator"] >>

LookupSources ==
    { [d EXCEPT !.definitions = LookupWorkflows(p1, p2), !.workflows = l] :
        d \in {CHOOSE d \in DataSources : TRUE},
        p1 \in WebhookPaths, p2 \in WebhookPaths, l \in {Summaries, ListedBefore} }

\* the path part of the URLs looked up, and the paths looked up bare
UrlPaths ==
    { <<>>, <<"/">>, Str_webhook, Str_webhook \o <<"/","a","g">>,
      Str_webhook \o <<"/","/","a","g">>, <<"/","a","g","e","n","t">>,
      <<"/","/","a","g">>, Str_webhook \o Str_webhook \o <<"/","i","n">>,
      Str_webhook \o <<"s","/","i","n">>, <<"/","z","z">> }

BarePaths ==
    UrlPaths \cup { <<"a","g">>, <<"g","e">>, <<"w","e","b","h","o","o","k">>,
                    <<"a","g","?","x">> }

LookupInputs ==
    { [origin |-> o, path |-> p, query |-> q] :
        o \in {Str_origin, Str_plainOrigin}, p \in UrlPaths,
        q \in { <<>>, <<"?","x">>, <<"#","x">> } }
    \cup { [origin |-> <<>>, path |-> p, query |-> <<>>] : p \in BarePaths }

InitLookup ==
    /\ ds \in LookupSources
    /\ rootExecutionId = "e0"
    /\ timeWindowMs \in TimeWindows
    /\ maxDepth = MaxDepthBound
    /\ Fresh

NextLookup ==
    \/ Initialize
    \/ FindWorkflowByWebhook(LookupInputs)

LookupSpec == InitLookup /\ [][NextLookup]_vars

----------------------------------------------------------------------------
(* Several searches on one correlator, also with no webhook path declared *)

MaxCalls == 2

\* the same data source with the webhook nodes taken out of every workflow
WithoutWebhooks(d) ==
    [d EXCEPT !.definitions =
        [w \in WorkflowIds |->
            [d.definitions[w] EXCEPT
                !.nodes = SelectSeq(@, LAMBDA n : n.type # NodeType_webhook)]]]

RepeatSources == CycleSources \cup {WithoutWebhooks(d) : d \in CycleSources}

InitRepeat ==
    /\ ds \in RepeatSources
    /\ rootExecutionId \in {"e0", "e3"}
    /\ timeWindowMs \in TimeWindows
    /\ maxDepth \in 0 .. MaxDepthBound
    /\ Fresh

NextRepeat ==
    \/ Next
    \/ CorrelateAgain(MaxCalls)

RepeatSpec == InitRepeat /\ [][NextRepeat]_vars

----------------------------------------------------------------------------
(* An execution that calls the same webhook more than once *)

\* the root calls the agent's webhook twice, in time order or against it,
\* also with calls to other webhooks in between
CallRuns ==
    { << Trigger(RootStart, "u1", "c1"), HttpRun(RootStart + 200, Url_agent),
         HttpRun(RootStart + 4000, Url_agent) >>,
      << Trigger(RootStart, "u1", "c1"), HttpRun(RootStart + 4000, Url_agent),
         HttpRun(RootStart + 200, Url_agent) >>,
      << Trigger(RootStart, "u1", "c1"), HttpRun(RootStart + 200, Url_agent),
         HttpRun(RootStart + 300, Url_unknown),
         HttpRun(RootStart + 4000, Url_agent),
         HttpRun(RootStart + 4100, Url_intake) >> }

CallProfiles ==
    { Profile(RootStart + d, id[1], id[2], << >>) :
        d \in {300, 1500, 3900, 4100},
        id \in { <<"", "">>, <<"u1", "">>, <<"", "c1">> } }

CallSources ==
    { [workflows |-> Summaries,
       definitions |-> Definitions,
       listing |-> [W1 |-> <<"e0">>, W2 |-> <<"e1", "e2">>, W3 |-> <<"e3">>],
       execs |-> [e0 |-> Execution("e0", "W1", RootStart, r0),
                  e1 |-> Execution("e1", "W2", p1.startedAt, p1.runData),
                  e2 |-> Execution("e2", "W2", p2.startedAt, p2.runData),
                  e3 |-> Execution("e3", "W3", RootStart,
                                   << Trigger(RootStart, "u1", "") >>)]] :
        r0 \in CallRuns, p1 \in CallProfiles, p2 \in CallProfiles }

InitCalls ==
    /\ ds \in CallSources
    /\ rootExecutionId = "e0"
    /\ timeWindowMs \in TimeWindows
    /\ maxDepth \in 1 .. MaxDepthBound
    /\ Fresh

CallsSpec == InitCalls /\ [][Next]_vars

----------------------------------------------------------------------------
(* Chains that leave the root's window *)

\* an agent execution that calls the agent webhook again, one it may reach,
\* a tool execution at the end of the root's window and an agent execution
\* one window later
ChainSources ==
    { [workflows |-> Summaries,
       definitions |-> Definitions,
       listing |-> [W1 |-> <<"e0">>, W2 |-> <<"e1", "e2", "e4">>, W3 |-> <<"e3">>],
       execs |-> [e0 |-> Execution("e0", "W1", RootStart,
                            << Trigger(RootStart, "u1", "c1"),
                               HttpRun(RootStart + 200, Url_agent) >>),
                  e1 |-> Execution("e1", "W2", p1.startedAt, p1.runData),
                  e2 |-> Execution("e2", "W2", p2.startedAt, p2.runData),
                  e3 |-> Execution("e3", "W3", p3.startedAt, p3.runData),
                  e4 |-> Execution("e4", "W2", p4.startedAt, p4.runData)]] :
        p1 \in { Profile(RootStart - d, "u1", "c1", << Url_agent >>) : d \in {1000, 1001} },
        p2 \in { Profile(RootStart + d, "u1", "c1", << >>) : d \in {-2000, -2001, 5500} },
        p3 \in { Profile(RootStart + d, "u1", "c1", << >>) : d \in {6000, 6001} },
        p4 \in { Profile(RootStart + d, "u1", "c1", << >>) : d \in {11999, 12000, 12001} } }

InitChain ==
    /\ ds \in ChainSources
    /\ rootExecutionId = "e0"
    /\ timeWindowMs \in TimeWindows
    /\ maxDepth \in 1 .. MaxDepthBound
    /\ Fresh

ChainSpec == InitChain /\ [][Next]_vars

----------------------------------------------------------------------------
(* Tool and client calls with well-formed and ill-formed ids *)

MaxToolCalls == 2

Repeat(c, n) == [i \in 1 .. n |-> c]

Id_e0 == <<"e", "0">>

Id_e1 == <<"A", "-", "z", "_", "9">>

Id_W1 == <<"W", "1">>

Id_slash == <<"W", "/", "2">>

\* ids a caller may pass: well-formed ones, of an execution or a workflow
\* that exists or not, up to the longest allowed; the empty id, an id one
\* character too long, and ids with a character outside the allowed set
IdInputs ==
    { Id_e0, Id_e1, Id_W1, Repeat("a", MaxIdLength),
      << >>, Repeat("a", MaxIdLength + 1), Id_slash,
      <<".", ".", "/", "x">>, <<"e", "0", "\n">>, <<"%", "2", "F">> }

\* what the data source holds: the listed workflows, whose ids it may have
\* made up freely, and two executions with the workflow each belongs to
IdSources ==
    { [workflows |-> [i \in 1 .. Len(listed) |-> [id |-> listed[i], name |-> "w"]],
       definitions |-> [w \in {Id_W1} |-> [id |-> w, name |-> "w", nodes |-> << >>]],
       listing |-> << >>,
       execs |-> [e \in {Id_e0, Id_e1} |->
                     [id |-> e, workflowId |-> IF e = Id_e0 THEN Id_W1 ELSE wf]]] :
        listed \in { <<Id_W1>>, <<Id_W1, Id_slash>>, <<Id_slash, Id_W1>> },
        wf \in { Id_W1, Id_slash, << >> } }

InitIds ==
    /\ ds \in IdSources
    /\ rootExecutionId = "e0"
    /\ timeWindowMs \in TimeWindows
    /\ maxDepth = 1
    /\ Fresh

NextIds ==
    \/ HandleGetExecutionTrace(IdInputs, MaxToolCalls)
    \/ HandleGetCorrelatedExecutions(IdInputs, MaxToolCalls)
    \/ GetExecution(IdInputs, MaxToolCalls)
    \/ GetWorkflow(IdInputs, MaxToolCalls)

IdSpec == InitIds /\ [][NextIds]_vars

----------------------------------------------------------------------------
(* Searches on a correlator whose index build can fail part-way *)

NextPartial ==
    \/ Next
    \/ InitializeFails(MaxCalls)
    \/ CorrelateAgain(MaxCalls)

PartialSpec == InitCycle /\ [][NextPartial]_vars

----------------------------------------------------------------------------
(* Searches during which the data source can fail a listExecutions call *)

NextFail ==
    \/ Next
    \/ ListExecutionsFails

FailSpec == InitCycle /\ [][NextFail]_vars

----------------------------------------------------------------------------
(* Executions without run data or without a start timestamp *)

\* an execution as the API returns it: complete, without run data, or without
\* startedAt (its run data telling the same user and chat as the root's)
MalformedProfiles(startedAt, urls) ==
    { Profile(startedAt, "u1", "c1", urls),
      [startedAt |-> startedAt, runData |-> << >>],
      [startedAt |-> NaN, runData |-> Profile(startedAt, "u1", "c1", urls).runData] }

MalformedSources ==
    { [workflows |-> Summaries,
       definitions |-> Definitions,
       listing |-> [W1 |-> <<"e0">>, W2 |-> <<"e1", "e2">>, W3 |-> <<"e3">>],
       execs |-> [e0 |-> Execution("e0", "W1", p0.startedAt, p0.runData),
                  e1 |-> Execution("e1", "W2", p1.startedAt, p1.runData),
                  e2 |-> Execution("e2", "W2", p2.startedAt, p2.runData),
                  e3 |-> Execution("e3", "W3", p3.startedAt, p3.runData)]] :
        p0 \in MalformedProfiles(RootStart, << Url_agent >>),
        p1 \in MalformedProfiles(RootStart + 300, << Url_agent >>),
        p2 \in MalformedProfiles(RootStart + 400, << >>),
        p3 \in MalformedProfiles(RootStart + 500, << >>) }

InitMalformed ==
    /\ ds \in MalformedSources
    /\ rootExecutionId = "e0"
    /\ timeWindowMs \in TimeWindows
    /\ maxDepth \in 0 .. MaxDepthBound
    /\ Fresh

MalformedSpec == InitMalformed /\ [][Next]_vars

----------------------------------------------------------------------------
(* Roots whose node invocations carry the context fields in many ways *)

Body(user, chat, corr, resp) ==
    [user_id |-> user, chat_id |-> chat, correlation_id |-> corr, response_id |-> resp]

\* one node invocation of the root: without output record, or with the fields
\* at top level, in the nested body, or in both
ContextRuns ==
    { [Run("Set", RootStart, Json(<<>>, "", "", "", <<>>)) EXCEPT !.hasJson = FALSE],
      Run("Set", RootStart, Json(<<>>, "", "", "", <<>>)),
      Run("Set", RootStart, Json(<<>>, "", "", "k1", <<>>)),
      Run("Set", RootStart, Json(<<>>, "", "", "", <<"R","-","1">>)),
      Run("Set", RootStart, [Json(<<>>, "u1", "", "k2", <<>>)
                                EXCEPT !.body = Body("u2", "", "", <<"R","-","2">>)]),
      Run("Set", RootStart, [Json(<<>>, "", "", "k3", <<>>)
                                EXCEPT !.body = Body("", "c1", "k4", <<>>)]),
      Run("Set", RootStart, [Json(<<>>, "u1", "", "", <<>>)
                                EXCEPT !.body = Body("u2", "", "", <<>>)]),
      Run("Set", RootStart, Json(<<>>, "u1", "c1", "", <<>>)) }

ContextSources ==
    { [workflows |-> Summaries,
       definitions |-> Definitions,
       listing |-> [W1 |-> <<"e0">>, W2 |-> <<"e1">>, W3 |-> <<"e3">>],
       execs |-> [e0 |-> Execution("e0", "W1", RootStart,
                            << r1, r2, r3, HttpRun(RootStart + 200, Url_agent) >>),
                  e1 |-> Execution("e1", "W2", RootStart + 300,
                            Profile(RootStart + 300, "u1", "c1", << >>).runData),
                  e3 |-> Execution("e3", "W3", RootStart + 500,
                            Profile(RootStart + 500, "u1", "c1", << >>).runData)]] :
        r1 \in ContextRuns, r2 \in ContextRuns, r3 \in ContextRuns }

InitContext ==
    /\ ds \in ContextSources
    /\ rootExecutionId = "e0"
    /\ timeWindowMs \in TimeWindows
    /\ maxDepth \in 1 .. MaxDepthBound
    /\ Fresh

ContextSpec == InitContext /\ [][Next]_vars

----------------------------------------------------------------------------
(* Repeated initialize() calls *)

MaxBuilds == 2

NextIndex ==
    \/ Initialize
    \/ InitializeAgain(MaxBuilds)
    \/ FindWorkflowByWebhook({input \in LookupInputs : input.origin = <<>>})

IndexSpec == InitLookup /\ [][NextIndex]_vars

----------------------------------------------------------------------------
(* The handler: the search, then the tree of what it returned *)

NextTree ==
    \/ Next
    \/ FormatCorrelationTree

TreeSpec == InitCycle /\ [][NextTree]_vars

----------------------------------------------------------------------------
(* Properties *)

ResultIds == {results[i].execution : i \in 1 .. Len(results)}

\* the place of an execution in results, or 0
IndexOf(id) ==
    IF \E i \in 1 .. Len(results) : results[i].execution = id
    THEN CHOOSE i \in 1 .. Len(results) : results[i].execution = id
    ELSE 0

\* the number of parentId links from an execution back to the root; more than
\* maxDepth when the links do not lead to the root within fuel steps
RECURSIVE StepsToRoot(_, _)
StepsToRoot(id, fuel) ==
    IF id = rootExecutionId THEN 0
    ELSE IF fuel = 0 \/ IndexOf(id) = 0 THEN maxDepth + 1
    ELSE 1 + StepsToRoot(results[IndexOf(id)].parentId, fuel - 1)

\* C1: the result list never holds two Correlation Results with the same
\* execution id, whatever the data source lists and however often.
C1_NoDuplicateResults ==
    \A i, j \in 1 .. Len(results) :
        i # j => results[i].execution # results[j].execution

\* an execution accepted in the webhook-call pass was offered again by the
\* sub-workflow pass, and the search has returned
C1_Witness ==
    /\ pc = "done"
    /\ last.pass = "sub" /\ last.outcome = "visited"
    /\ \E i \in 1 .. Len(results) :
        results[i].execution = last.candidate /\ results[i].pass = "webhook"

\* C2: from the start of the search to its return, visited is the root id
\* together with the execution ids of the results, and has one entry more than
\* there are results.
C2_VisitedIsRootPlusResults ==
    pc \in {"search", "done"} =>
        /\ visited = {rootExecutionId} \cup ResultIds
        /\ Cardinality(visited) = 1 + Len(results)

\* the search has returned two results and left an execution it scored out
C2_Witness ==
    /\ pc = "done"
    /\ Len(results) = 2
    /\ last.outcome = "rejected"
    /\ last.candidate \notin visited

\* C3: every Correlation Result, of either pass, has a confidence above 0.5
\* and at most 1.0.
C3_ConfidenceRange ==
    \A i \in 1 .. Len(results) :
        results[i].confidence > 5 /\ results[i].confidence <= 10

\* a webhook result whose signals add up to more than 1.0 and a sub-workflow
\* result have been returned
C3_Witness ==
    /\ pc = "done"
    /\ \E i, j \in 1 .. Len(results) :
        /\ results[i].pass = "webhook"
        /\ results[i].method = "webhook_url+timestamp_exact+user_id+chat_id"
        /\ results[i].confidence = 10
        /\ results[j].pass = "sub"

\* C4: no result comes from an expansion at depth >= maxDepth, the parentId
\* links of a result lead to the root in at most maxDepth steps, and with
\* maxDepth = 0 there is no result and no listExecutions request.
C4_DepthBounded ==
    /\ \A k \in 1 .. Len(stack) : stack[k].currentDepth < maxDepth
    /\ \A i \in 1 .. Len(results) :
        /\ results[i].depth < maxDepth
        /\ StepsToRoot(results[i].execution, Len(results)) <= maxDepth
    /\ maxDepth = 0 => results = <<>> /\ requests = <<>>

\* a result sits maxDepth links from the root, and the execution it names made
\* an HTTP call that would have been followed one level deeper
C4_Witness ==
    /\ pc = "done"
    /\ maxDepth >= 1
    /\ \E i \in 1 .. Len(results) :
        /\ results[i].depth = maxDepth - 1
        /\ StepsToRoot(results[i].execution, Len(results)) = maxDepth
        /\ extractHttpCalls(ds.execs[results[i].execution]) # <<>>
        /\ findWorkflowByWebhook(webhookMappings,
              extractHttpCalls(ds.execs[results[i].execution])[1].url) # NoMapping

\* C5: against a finite data source whose calls all return, cycles among the
\* candidate lists included, correlateExecutions eventually returns.
C5_Terminates == <>(pc = "done")

\* the search started from a tool execution has returned; it accepted an
\* agent execution and expanded it, and the two are within each other's
\* sub-workflow window and score above 0.5 against each other
C5_Witness ==
    /\ pc = "done"
    /\ rootExecutionId = "e3"
    /\ maxDepth >= 2
    /\ Request("W3", Limit_subWorkflow) \in {requests[k] : k \in 1 .. Len(requests)}
    /\ \E i \in 1 .. Len(results) :
        LET agent == ds.execs[results[i].execution]
            tool == ds.execs["e3"]
        IN  /\ results[i].depth = 0
            /\ agent.workflowId = "W2"
            /\ results[i].execution \in {ds.listing["W2"][k] : k \in 1 .. Len(ds.listing["W2"])}
            /\ InSubWorkflowWindow(tool.startedAt, agent.startedAt)
            /\ InSubWorkflowWindow(agent.startedAt, tool.startedAt)
            /\ Accepted(scoreSubWorkflow(agent.startedAt, tool,
                                         extractUserContext(agent)).confidence)
            /\ Accepted(scoreSubWorkflow(tool.startedAt, agent,
                                         extractUserContext(tool)).confidence)

\* the ids of the results on the parentId path from a result to the root,
\* the result's own id included
RECURSIVE PathToRoot(_, _)
PathToRoot(id, fuel) ==
    IF id = rootExecutionId \/ fuel = 0 \/ IndexOf(id) = 0 THEN {}
    ELSE {id} \cup PathToRoot(results[IndexOf(id)].parentId, fuel - 1)

\* C6: results is in depth-first discovery order: each result is attached to
\* the root or to a result on the path of the result just before it (so the
\* results of a subtree directly follow its head), and among the results of one
\* parent those of the webhook-call pass come first.
C6_DepthFirstOrder ==
    /\ \A k \in 1 .. Len(results) :
        \/ results[k].parentId = rootExecutionId
        \/ k > 1 /\ results[k].parentId
                      \in PathToRoot(results[k - 1].execution, Len(results))
    /\ \A i, j \in 1 .. Len(results) :
        (i < j /\ results[i].parentId = results[j].parentId)
            => ~(results[i].pass = "sub" /\ results[j].pass = "webhook")

\* three results returned: one of the webhook-call pass, then a result found
\* below it with a higher confidence, then one the sub-workflow pass of the
\* root found
C6_Witness ==
    /\ pc = "done"
    /\ Len(results) = 3
    /\ results[1].pass = "webhook" /\ results[1].parentId = rootExecutionId
    /\ results[2].parentId = results[1].execution
    /\ results[2].confidence > results[1].confidence
    /\ results[3].pass = "sub" /\ results[3].parentId = rootExecutionId
    /\ results[3].confidence > results[1].confidence

\* the payload an execution was triggered with (its first run)
TriggerJson(id) == ds.execs[id].runData[1].json

\* the start times of the runs of the HTTP Request node of an execution
HttpRequestTimes(id) ==
    LET runs == SelectSeq(ds.execs[id].runData, LAMBDA r : r.node = "HTTP Request")
    IN  [k \in 1 .. Len(runs) |-> runs[k].startTime]

\* a response id up to its second "-" (all of it when it has fewer than two)
FirstTwoSegments(s) ==
    LET dashes == {i \in 1 .. Len(s) : s[i] = "-"}
    IN  IF Cardinality(dashes) < 2 THEN s
        ELSE SubSeq(s, 1, (CHOOSE i \in dashes :
                              Cardinality({j \in dashes : j < i}) = 1) - 1)

\* a label with one more signal name joined to it
Plus(label, cond, name) ==
    IF ~cond THEN label ELSE IF label = "" THEN name ELSE label \o "+" \o name

\* C7: a candidate scored in the webhook-call pass gets
\* min(1.0, 0.3 + T + 0.3[userId] + 0.2[chatId] + 0.5[correlationId]
\* + 0.1[response pattern]), T by |candidate start - call timestamp| < 500,
\* < 2000, < 5000 ms, an identity signal counting only when the parent has
\* the value, and the label joins the contributing names in that order.
C7_WebhookScore ==
    (last.pass = "webhook" /\ last.outcome \in {"accepted", "rejected"}) =>
        LET p == TriggerJson(last.parent)
            c == TriggerJson(last.candidate)
            diff == Abs(ds.execs[last.candidate].startedAt
                          - HttpRequestTimes(last.parent)[last.call])
            T == IF diff < 500 THEN 3 ELSE IF diff < 2000 THEN 2
                 ELSE IF diff < 5000 THEN 1 ELSE 0
            user == p.user_id # "" /\ c.user_id = p.user_id
            chat == p.chat_id # "" /\ c.chat_id = p.chat_id
            corr == p.correlation_id # "" /\ c.correlation_id = p.correlation_id
            resp == /\ p.response_id # <<>> /\ c.response_id # <<>>
                    /\ FirstTwoSegments(p.response_id) = FirstTwoSegments(c.response_id)
            sum == 3 + T + (IF user THEN 3 ELSE 0) + (IF chat THEN 2 ELSE 0)
                     + (IF corr THEN 5 ELSE 0) + (IF resp THEN 1 ELSE 0)
            label == Plus(Plus(Plus(Plus(Plus(Plus(
                        "webhook_url",
                        T = 3, "timestamp_exact"), T = 2, "timestamp_close"),
                        T = 1, "timestamp"),
                        user, "user_id"), chat, "chat_id"),
                        corr, "correlation_id")
        IN  /\ last.confidence = (IF sum > 10 THEN 10 ELSE sum)
            /\ last.method = Plus(label, resp, "response_pattern")
            /\ (last.outcome = "accepted") = (last.confidence > 5)

\* a candidate that started 300 ms after the call and has the parent's user id
\* (and nothing else of the parent's) was scored 0.9
C7_Witness ==
    /\ last.pass = "webhook" /\ last.outcome = "accepted"
    /\ ds.execs[last.candidate].startedAt
         = HttpRequestTimes(last.parent)[last.call] + 300
    /\ TriggerJson(last.parent).user_id # ""
    /\ TriggerJson(last.candidate).user_id = TriggerJson(last.parent).user_id
    /\ last.confidence = 9
    /\ last.method = "webhook_url+timestamp_exact+user_id"

\* C8: a candidate scored in the sub-workflow pass gets
\* T + 0.4[userId] + 0.3[chatId], T = 0.3 / 0.2 / 0 by candidate start minus
\* the start of the execution being expanded < 2000, < 5000 ms or not; the
\* correlation id and the response id add nothing to confidence or label.
C8_SubWorkflowScore ==
    (last.pass = "sub" /\ last.outcome \in {"accepted", "rejected"}) =>
        LET p == TriggerJson(last.parent)
            c == TriggerJson(last.candidate)
            diff == ds.execs[last.candidate].startedAt - ds.execs[last.parent].startedAt
            T == IF diff < 2000 THEN 3 ELSE IF diff < 5000 THEN 2 ELSE 0
            user == p.user_id # "" /\ c.user_id = p.user_id
            chat == p.chat_id # "" /\ c.chat_id = p.chat_id
        IN  /\ last.confidence = T + (IF user THEN 4 ELSE 0) + (IF chat THEN 3 ELSE 0)
            /\ last.method = Plus(Plus(Plus("", T > 0, "timestamp"),
                                       user, "user_id"), chat, "chat_id")
            /\ (last.outcome = "accepted") = (last.confidence > 5)

\* a sub-workflow candidate with the parent's user id, correlation id and
\* response pattern, started 2000 ms after the parent and 1800 ms after the
\* parent's HTTP call, was scored 0.2 + 0.4
C8_Witness ==
    /\ last.pass = "sub" /\ last.outcome = "accepted"
    /\ TriggerJson(last.parent).correlation_id # ""
    /\ TriggerJson(last.candidate).correlation_id
         = TriggerJson(last.parent).correlation_id
    /\ TriggerJson(last.parent).response_id # <<>>
    /\ TriggerJson(last.candidate).response_id # <<>>
    /\ FirstTwoSegments(TriggerJson(last.candidate).response_id)
         = FirstTwoSegments(TriggerJson(last.parent).response_id)
    /\ ds.execs[last.candidate].startedAt = ds.execs[last.parent].startedAt + 2000
    /\ HttpRequestTimes(last.parent) # <<>>
    /\ ds.execs[last.candidate].startedAt = HttpRequestTimes(last.parent)[1] + 1800
    /\ last.confidence = 6
    /\ last.method = "timestamp+user_id"

\* C9: a candidate scored at 0.5 or less produces no Correlation Result, is
\* not added to visited and is not expanded.
C9_StrictThreshold ==
    (last.outcome \in {"accepted", "rejected"} /\ last.confidence <= 5) =>
        /\ last.outcome = "rejected"
        /\ last.candidate \notin visited
        /\ last.candidate \notin ResultIds
        /\ \A k \in 1 .. Len(stack) : stack[k].execution # last.candidate

\* below maxDepth, a webhook candidate was scored webhook_url+timestamp_close,
\* exactly 0.5, and the search went on without it
C9_Witness ==
    /\ pc = "search"
    /\ last.pass = "webhook" /\ last.outcome = "rejected"
    /\ last.confidence = 5
    /\ last.method = "webhook_url+timestamp_close"
    /\ stack # <<>> /\ Top.currentDepth + 1 < maxDepth
    /\ Top.execution = last.parent

\* C10: a webhook-pass result started within [parent start - 1000 ms, parent
\* start + timeWindowMs], a sub-workflow-pass result within [parent start,
\* parent start + timeWindowMs], the parent being the execution expanded; the
\* bounds are inclusive, a candidate skipped for its start time lies outside.
C10_ResultsInWindow ==
    /\ \A i \in 1 .. Len(results) :
        LET c == ds.execs[results[i].execution].startedAt
            p == ds.execs[results[i].parentId].startedAt
        IN  /\ results[i].pass = "webhook" =>
                (p - 1000 <= c /\ c <= p + timeWindowMs)
            /\ results[i].pass = "sub" => (p <= c /\ c <= p + timeWindowMs)
    /\ last.outcome = "window" =>
        LET c == ds.execs[last.candidate].startedAt
            p == ds.execs[last.parent].startedAt
        IN  IF last.pass = "webhook"
            THEN c < p - 1000 \/ c > p + timeWindowMs
            ELSE c < p \/ c > p + timeWindowMs

\* the returned results hold a webhook-pass result that started exactly
\* 1000 ms before its parent, one that started exactly timeWindowMs after it,
\* and a sub-workflow-pass result that started with its parent
C10_Witness ==
    /\ pc = "done"
    /\ \E i, j, k \in 1 .. Len(results) :
        /\ results[i].pass = "webhook"
        /\ ds.execs[results[i].execution].startedAt
             = ds.execs[results[i].parentId].startedAt - 1000
        /\ results[j].pass = "webhook"
        /\ ds.execs[results[j].execution].startedAt
             = ds.execs[results[j].parentId].startedAt + timeWindowMs
        /\ results[k].pass = "sub"
        /\ ds.execs[results[k].execution].startedAt
             = ds.execs[results[k].parentId].startedAt

----------------------------------------------------------------------------
(* Webhook lookup *)

\* a contains b as a contiguous run of characters
Contains(a, b) ==
    \E i \in 0 .. (Len(a) - Len(b)) : \A k \in 1 .. Len(b) : a[i + k] = b[k]

WithoutSlash(p) == IF p # <<>> /\ Head(p) = "/" THEN Tail(p) ELSE p

\* the path of a looked-up input: the path component of a URL ("/" when the
\* URL has none), the whole input when it is no URL; minus a leading /webhook
\* and then minus one leading slash
LookupPath(input) ==
    LET whole == IF input.origin = <<>> THEN input.path
                 ELSE IF input.path = <<>> THEN <<"/">> ELSE input.path
        rest == IF Len(whole) >= 8 /\ SubSeq(whole, 1, 8) = Str_webhook
                THEN SubSeq(whole, 9, Len(whole)) ELSE whole
    IN  WithoutSlash(rest)

Satisfies(m, input) ==
    \/ Contains(WithoutSlash(m.path), LookupPath(input))
    \/ Contains(LookupPath(input), WithoutSlash(m.path))

\* C11: findWorkflowByWebhook, for a full URL or a bare path, returns the
\* first mapping in index order whose slash-stripped path contains, or is
\* contained in, the input's path without a leading /webhook and a leading
\* slash; it returns the empty result exactly when no mapping of the index
\* satisfies that containment, an unparsable URL being taken as a bare path
C11_FirstContainedMapping ==
    lookup.done =>
        LET sat == {i \in 1 .. Len(lookup.index) :
                        Satisfies(lookup.index[i], lookup.input)}
        IN  /\ (lookup.result = NoMapping) <=> (sat = {})
            /\ sat # {} =>
                 \E i \in sat : /\ lookup.result = lookup.index[i]
                                /\ \A j \in sat : i <= j

\* a bare path that is no URL has been resolved to the first of two different
\* mappings that both satisfy the containment
C11_Witness ==
    /\ lookup.done
    /\ lookup.input.origin = <<>>
    /\ ~UrlParses(lookup.url)
    /\ Len(lookup.index) = 2
    /\ lookup.index[1].path # lookup.index[2].path
    /\ \A i \in 1 .. 2 : Satisfies(lookup.index[i], lookup.input)
    /\ lookup.result = lookup.index[1]

\* C12: webhook path normalization is idempotent: the lookup normalization
\* (strip a leading /webhook, then one leading slash) applied to the path a
\* lookup has normalized yields that path again, and the index normalization
\* (ensure a leading slash) applied to an indexed path yields that path again
C12_NormalizationIdempotent ==
    /\ lookup.done => NormalizePath(lookup.path) = lookup.path
    /\ \A i \in 1 .. Len(webhookMappings) :
        EnsureLeadingSlash(webhookMappings[i].path) = webhookMappings[i].path

----------------------------------------------------------------------------
(* The index *)

\* C13: on one correlator the index build (listWorkflows plus one getWorkflow
\* per active workflow) is performed at most once over any sequence of
\* correlateExecutions calls, also after an explicit initialize() and also
\* when no active workflow declares a webhook path
C13_IndexBuiltOnce == indexBuilds <= 1

\* C14: after initialize() has completed, the key set of getWorkflowNames()
\* is exactly the set of ids the active-workflow listing returned, and each id
\* is mapped to the name field of the full definition fetched for it
C14_NamesOfFetchedDefinitions ==
    pc = "initialized" =>
        LET names == getWorkflowNames(workflowCache)
        IN  /\ {names[i].key : i \in 1 .. Len(names)}
                 = {ds.workflows[i].id : i \in 1 .. Len(ds.workflows)}
            /\ \A i \in 1 .. Len(names) :
                 names[i].value = ds.definitions[names[i].key].name

\* initialize() has completed on a listing that leaves a workflow out and
\* names another one differently from its definition
C14_Witness ==
    /\ pc = "initialized"
    /\ Len(getWorkflowNames(workflowCache)) = 2
    /\ \E i \in 1 .. Len(ds.workflows) :
        ds.workflows[i].name # ds.definitions[ds.workflows[i].id].name
    /\ \E w \in DOMAIN ds.definitions :
        \A i \in 1 .. Len(ds.workflows) : ds.workflows[i].id # w

----------------------------------------------------------------------------
(* Errors *)

\* C15: when a listExecutions call fails during a search, at any depth and in
\* either pass, correlateExecutions fails with that error: the failed call is
\* the last data-source call of the search (no retry, no further call), and
\* the caller receives the error and no result list, whatever was accepted
\* before the failure
C15_ListingFailureAborts ==
    failures # {} =>
        /\ pc = "failed"
        /\ stack = <<>>
        /\ \E f \in failures :
            /\ failures = {f}
            /\ f.at = Len(requests)
            /\ replies = << [kind |-> "error", value |-> <<>>, error |-> f.error] >>

\* a listExecutions call of the sub-workflow pass failed after an earlier call
\* of the webhook-call pass had led to a result that was accepted and expanded
C15_Witness ==
    /\ failures # {}
    /\ results # <<>>
    /\ requests[Len(requests)].limit = Limit_subWorkflow
    /\ Len(expanded) >= 2
    /\ \E i \in 1 .. Len(requests) - 1 : requests[i].limit = Limit_webhook

\* every result has a confidence above 0.5 and at most 1.0 and started inside
\* the time window of its pass around its parent's start
ValidResults ==
    \A i \in 1 .. Len(results) :
        LET c == ds.execs[results[i].execution].startedAt
            p == ds.execs[results[i].parentId].startedAt
        IN  /\ results[i].confidence > 5 /\ results[i].confidence <= 10
            /\ c # NaN /\ p # NaN
            /\ c <= p + timeWindowMs
            /\ IF results[i].pass = "webhook" THEN p - 1000 <= c ELSE p <= c

\* C16: malformed execution data never makes a search fail: when the root or
\* a candidate execution lacks run data or a start timestamp,
\* correlateExecutions raises no error, and every result it gathers and
\* returns satisfies the confidence and window invariants
C16_MalformedTolerated ==
    /\ pc # "failed"
    /\ ValidResults

----------------------------------------------------------------------------
(* Completeness *)

\* a link: c is returned in a candidate listing for p, lies inside that pass's
\* time window of p and scores above 0.5 against p
Linked(p, c) ==
    LET parent == ds.execs[p]
        candidate == ds.execs[c]
        context == extractUserContext(parent)
        calls == extractHttpCalls(parent)
        listed(w, limit) == \E i \in 1 .. Len(Candidates(w, limit)) :
                                Candidates(w, limit)[i] = c
    IN  \/ \E k \in 1 .. Len(calls) :
            LET mapping == findWorkflowByWebhook(webhookMappings, calls[k].url)
            IN  /\ mapping # NoMapping
                /\ listed(mapping.workflowId, Limit_webhook)
                /\ InWebhookWindow(candidate.startedAt, parent.startedAt)
                /\ scoreCorrelation(parent, candidate, context, calls[k]).confidence > 5
        \/ \E j \in 1 .. Len(workflowsWithSubTrigger) :
            LET w == workflowsWithSubTrigger[j]
            IN  /\ w # parent.workflowId
                /\ listed(w, Limit_subWorkflow)
                /\ InSubWorkflowWindow(candidate.startedAt, parent.startedAt)
                /\ scoreSubWorkflow(parent.startedAt, candidate, context).confidence > 5

\* the executions with a chain of at most n links from the root
RECURSIVE Related(_)
Related(n) ==
    IF n = 0 THEN {rootExecutionId}
    ELSE LET near == Related(n - 1)
         IN  near \cup {c \in DOMAIN ds.execs : \E p \in near : Linked(p, c)}

\* C17: the search finds all related executions: every execution with a chain
\* of at most maxDepth links from the root appears in the returned results,
\* whatever order the candidates are discovered in
C17_AllRelatedFound ==
    pc = "done" => (Related(maxDepth) \ {rootExecutionId}) \subseteq ResultIds

----------------------------------------------------------------------------
(* Expansion *)

\* C18: within one search each execution id is expanded at most once: the
\* root is expanded once (first), an accepted candidate is expanded only by
\* the recursive call made at its acceptance, which is refused at the depth
\* limit, and an id already in the visited-set is never expanded again
C18_ExpandedOnce ==
    pc \in {"search", "done"} =>
        /\ \A i, j \in 1 .. Len(expanded) : i # j => expanded[i] # expanded[j]
        /\ IF maxDepth = 0 THEN expanded = <<>>
           ELSE expanded # <<>> /\ expanded[1] = rootExecutionId
        /\ {expanded[i] : i \in 2 .. Len(expanded)}
             = {results[i].execution :
                   i \in {k \in 1 .. Len(results) : results[k].depth + 1 < maxDepth}}
        /\ \A i, j \in 2 .. Len(expanded) :
             i < j => IndexOf(expanded[i]) < IndexOf(expanded[j])

\* an expanded execution was offered again as a candidate of another parent
\* and skipped as visited, and the search has returned
C18_Witness ==
    /\ pc = "done"
    /\ last.outcome = "visited"
    /\ \E i \in 2 .. Len(expanded) :
        /\ expanded[i] = last.candidate
        /\ results[IndexOf(last.candidate)].parentId # last.parent

----------------------------------------------------------------------------
(* Repeated searches *)

\* C19: runs of correlateExecutions with the same root id and options against
\* the same data-source snapshot return identical result sequences: the same
\* executions, parent ids, confidences and labels, in the same order
C19_SameResultsAgain ==
    \A i, j \in 1 .. Len(replies) :
        /\ replies[i].kind = "results"
        /\ replies[i].value = replies[j].value

\* a second search on the same correlator has returned, and the first had
\* returned two results or more
C19_Witness ==
    /\ pc = "done"
    /\ Len(replies) = 2
    /\ Len(replies[1].value) >= 2

----------------------------------------------------------------------------
(* Requests *)

\* the request a step has added to the log
Issued == requests'[Len(requests')]

\* C20: the sub-workflow pass requests executions only for cached workflows
\* that contain a sub-workflow-trigger node and whose id differs from the
\* workflow id of the execution being expanded, each with limit 5; the
\* webhook-call pass requests executions only for the workflow the HTTP call
\* at hand maps to, each with limit 10; both request full run data
C20_RequestsIssued ==
    [][requests' # requests =>
        /\ requests' = Append(requests, Issued)
        /\ Issued.includeData
        /\ stack # <<>>
        /\ IF Top.phase = "subs"
           THEN /\ Issued.limit = 5
                /\ \E i \in 1 .. Len(workflowCache) :
                    /\ workflowCache[i].key = Issued.workflowId
                    /\ \E n \in 1 .. Len(workflowCache[i].value.nodes) :
                        workflowCache[i].value.nodes[n].type
                            = "n8n-nodes-base.executeWorkflowTrigger"
                /\ Issued.workflowId # ds.execs[Top.execution].workflowId
           ELSE /\ Top.phase = "calls"
                /\ Issued.limit = 10
                /\ \E m \in 1 .. Len(webhookMappings) :
                    /\ webhookMappings[m].workflowId = Issued.workflowId
                    /\ webhookMappings[m]
                         = findWorkflowByWebhook(webhookMappings,
                              extractHttpCalls(ds.execs[Top.execution])[Top.callIdx].url)
    ]_vars

\* a search has returned after expanding, below the root, an execution of a
\* workflow that carries a sub-workflow trigger itself, and after issuing
\* requests of both passes
C20_Witness ==
    /\ pc = "done"
    /\ \E i \in 2 .. Len(expanded) :
        hasSubWorkflowTrigger(ds.definitions[ds.execs[expanded[i]].workflowId])
    /\ \E i, j \in 1 .. Len(requests) :
        requests[i].limit = 10 /\ requests[j].limit = 5

----------------------------------------------------------------------------
(* Unmapped HTTP calls *)

\* the activation on top of the stack is at an HTTP call that resolves to no
\* entry of the index
AtUnmappedCall ==
    /\ pc = "search" /\ stack # <<>> /\ Top.phase = "calls"
    /\ Top.callIdx <= Len(extractHttpCalls(ds.execs[Top.execution]))
    /\ findWorkflowByWebhook(webhookMappings,
            extractHttpCalls(ds.execs[Top.execution])[Top.callIdx].url) = NoMapping

\* C21: an extracted HTTP call whose URL resolves to no Webhook Index entry is
\* skipped silently: no listExecutions request is issued for it, no error is
\* raised, nothing is accepted, and the same activation goes on with the next
\* HTTP call (after the last one, with the sub-workflow pass)
C21_UnmappedCallSkipped ==
    [][AtUnmappedCall =>
        /\ requests' = requests
        /\ pc' = "search"
        /\ replies' = replies
        /\ results' = results
        /\ Len(stack') = Len(stack)
        /\ stack'[Len(stack')] = [stack[Len(stack)] EXCEPT !.callIdx = @ + 1]
    ]_vars

\* the root's first HTTP call resolved to no index entry, a later call of the
\* root led to a result of the webhook-call pass, and the sub-workflow pass
\* issued a request
C21_Witness ==
    /\ pc = "done"
    /\ Len(extractHttpCalls(ds.execs[rootExecutionId])) >= 2
    /\ findWorkflowByWebhook(webhookMappings,
            extractHttpCalls(ds.execs[rootExecutionId])[1].url) = NoMapping
    /\ \E i \in 1 .. Len(results) :
        results[i].pass = "webhook" /\ results[i].parentId = rootExecutionId
    /\ \E j \in 1 .. Len(requests) : requests[j].limit = Limit_subWorkflow

----------------------------------------------------------------------------
(* User context *)

NoValue(field) == IF field = "response_id" THEN <<>> ELSE ""

\* the invocation at which the scan stops: the first one with an output
\* record that names a user or a chat, at top level or in its body
StopsAt(runData) ==
    LET names(i) == /\ runData[i].hasJson
                    /\ \/ runData[i].json.user_id # ""
                       \/ runData[i].json.chat_id # ""
                       \/ runData[i].json.body.user_id # ""
                       \/ runData[i].json.body.chat_id # ""
        hits == {i \in 1 .. Len(runData) : names(i)}
    IN  IF hits = {} THEN Len(runData)
        ELSE CHOOSE i \in hits : \A j \in hits : i <= j

\* the value of a field after the scan: that of the last invocation up to the
\* stop that has one, its body's before its top-level one
Scanned(runData, field) ==
    LET has(i) == /\ runData[i].hasJson
                  /\ \/ runData[i].json[field] # NoValue(field)
                     \/ runData[i].json.body[field] # NoValue(field)
        found == {i \in 1 .. StopsAt(runData) : has(i)}
    IN  IF found = {} THEN NoValue(field)
        ELSE LET i == CHOOSE i \in found : \A j \in found : i >= j
             IN  IF runData[i].json.body[field] # NoValue(field)
                 THEN runData[i].json.body[field]
                 ELSE runData[i].json[field]

\* C22: extractUserContext scans node invocations in run-data order and stops
\* at the first invocation with an output record after which userId or chatId
\* is set: fields of later invocations are never in the result, fields set by
\* earlier invocations are kept, and within one invocation the nested body's
\* value overrides the top-level value of the same field
C22_ContextOfFirstIdentified ==
    \A i \in 1 .. Len(stack) :
        LET runData == ds.execs[stack[i].execution].runData
        IN  stack[i].userContext =
                [userId |-> Scanned(runData, "user_id"),
                 chatId |-> Scanned(runData, "chat_id"),
                 correlationId |-> Scanned(runData, "correlation_id"),
                 responseId |-> Scanned(runData, "response_id")]

\* the context of the expanded root: its first invocation set a correlation
\* id only, which is kept; its second named a user at top level and another
\* in its body, which is the one in the context; its third carried a chat and
\* other correlation ids, none of which is in the context
C22_Witness ==
    /\ stack # <<>>
    /\ stack[1].execution = "e0"
    /\ ds.execs["e0"].runData[1].json.correlation_id = "k1"
    /\ ds.execs["e0"].runData[2].json.user_id = "u1"
    /\ ds.execs["e0"].runData[2].json.body.user_id = "u2"
    /\ ds.execs["e0"].runData[3].json.correlation_id = "k3"
    /\ ds.execs["e0"].runData[3].json.body.chat_id = "c1"
    /\ stack[1].userContext =
         [userId |-> "u2", chatId |-> "", correlationId |-> "k1", responseId |-> <<>>]

----------------------------------------------------------------------------
(* Repeated index builds *)

\* the correlator's fields after one initialize() on a fresh correlator
FirstBuild == initialize(<<>>, <<>>)

RECURSIVE Times(_, _)
Times(s, n) == IF n = 0 THEN <<>> ELSE Times(s, n - 1) \o s

\* C23: initialize() is idempotent on correlator state: after a second call
\* against the unchanged data source the Webhook Index and the workflow cache
\* equal what they were after the first call
C23_InitializeIdempotent ==
    indexBuilds >= 1 =>
        /\ webhookMappings = FirstBuild.webhookMappings
        /\ workflowCache = FirstBuild.workflowCache

\* C23 (amended): a further initialize() leaves the workflow cache equal to
\* what the first call built and appends every mapping once more: after n
\* calls the index is the first index n times over, so it holds the same
\* mappings and every lookup has the result it has in the first index
C23_InitializeAppends ==
    indexBuilds >= 1 =>
        /\ workflowCache = FirstBuild.workflowCache
        /\ webhookMappings = Times(FirstBuild.webhookMappings, indexBuilds)
        /\ lookup.done /\ lookup.index = webhookMappings =>
             \E i \in 1 .. Len(FirstBuild.webhookMappings) + 1 :
                LET sat == {j \in 1 .. Len(FirstBuild.webhookMappings) :
                               Satisfies(FirstBuild.webhookMappings[j], lookup.input)}
                IN  IF sat = {} THEN lookup.result = NoMapping
                    ELSE /\ i \in sat /\ \A j \in sat : i <= j
                         /\ lookup.result = FirstBuild.webhookMappings[i]

\* initialize() has run twice on workflows that declare two different webhook
\* paths, and a lookup in the doubled index has found a mapping
C23_Witness ==
    /\ indexBuilds = 2
    /\ Len(webhookMappings) = 4
    /\ webhookMappings[1] # webhookMappings[2]
    /\ lookup.done /\ lookup.index = webhookMappings
    /\ lookup.result # NoMapping

----------------------------------------------------------------------------
(* The correlation tree *)

\* C24: the returned results form a tree rooted at the root execution: every
\* result's parentId is the root id or the execution id of a result earlier
\* in the list, and the tree printer, walking children by parentId from the
\* root, emits every result exactly once
C24_ResultsFormTree ==
    /\ \A i \in 1 .. Len(results) :
        \/ results[i].parentId = rootExecutionId
        \/ \E j \in 1 .. (i - 1) : results[j].execution = results[i].parentId
    /\ printed.done =>
        /\ Len(printed.lines) = Len(results)
        /\ \A i \in 1 .. Len(results) :
            \E k \in 1 .. Len(printed.lines) : printed.lines[k] = results[i].execution

\* the tree of three results has been printed: two attached to the root, one
\* to a result
C24_Witness ==
    /\ printed.done
    /\ Len(printed.lines) = 3
    /\ \E i, j, k \in 1 .. Len(results) :
        /\ i # j
        /\ results[i].parentId = rootExecutionId
        /\ results[j].parentId = rootExecutionId
        /\ results[k].parentId = results[i].execution

----------------------------------------------------------------------------
(* The root *)

\* C25: the root execution is never a Correlation Result, also when it is in
\* a candidate list of one of its own descendants with a score above 0.5
C25_RootNeverResult ==
    \A i \in 1 .. Len(results) : results[i].execution # rootExecutionId

\* a result's webhook-call pass was offered the root as candidate, inside its
\* window and scoring above 0.5 against the call, and skipped it as visited
C25_Witness ==
    /\ last.outcome = "visited"
    /\ last.candidate = rootExecutionId
    /\ last.pass = "webhook"
    /\ last.parent \in ResultIds
    /\ InWebhookWindow(ds.execs[rootExecutionId].startedAt,
                       ds.execs[last.parent].startedAt)
    /\ scoreCorrelation(ds.execs[last.parent], ds.execs[rootExecutionId],
                        extractUserContext(ds.execs[last.parent]),
                        extractHttpCalls(ds.execs[last.parent])[last.call]).confidence > 5

----------------------------------------------------------------------------
(* Identity in the sub-workflow pass *)

\* the labels of the sub-workflow pass that name user_id or chat_id
IdentityLabels ==
    { "user_id", "chat_id", "user_id+chat_id", "timestamp+user_id",
      "timestamp+chat_id", "timestamp+user_id+chat_id" }

\* C26: the sub-workflow pass never accepts a candidate on timestamp proximity
\* alone: every result it produces has a label containing user_id or chat_id
\* (and the candidate does carry that value of its parent), and a candidate it
\* scored on the timestamp alone, or on nothing, is not accepted
C26_SubWorkflowNeedsIdentity ==
    /\ \A i \in 1 .. Len(results) :
        results[i].pass = "sub" =>
            /\ results[i].method \in IdentityLabels
            /\ LET p == extractUserContext(ds.execs[results[i].parentId])
                   c == extractUserContext(ds.execs[results[i].execution])
               IN  \/ p.userId # "" /\ c.userId = p.userId
                   \/ p.chatId # "" /\ c.chatId = p.chatId
    /\ (last.pass = "sub" /\ last.method \notin IdentityLabels) =>
        last.outcome # "accepted"

\* the webhook-call pass has accepted a candidate with no identity match at
\* webhook_url+timestamp_exact = 0.6, and the sub-workflow pass has then
\* scored a candidate on its timestamp alone and not accepted it
C26_Witness ==
    /\ \E i \in 1 .. Len(results) :
        /\ results[i].pass = "webhook"
        /\ results[i].method = "webhook_url+timestamp_exact"
        /\ results[i].confidence = 6
    /\ last.pass = "sub"
    /\ last.outcome = "rejected"
    /\ last.method = "timestamp"

----------------------------------------------------------------------------
(* A failed index build *)

\* an index build has failed on this correlator
BuildFailed == \E i \in 1 .. Len(replies) : replies[i].kind = "error"

\* the index holds each webhook path of each active workflow exactly once
CompleteIndex ==
    /\ \A i \in 1 .. Len(listWorkflows) :
        LET webhooks == extractWebhookPaths(getWorkflow(listWorkflows[i].id))
        IN  \A j \in 1 .. Len(webhooks) :
                Cardinality({m \in 1 .. Len(webhookMappings) :
                    /\ webhookMappings[m].workflowId = listWorkflows[i].id
                    /\ webhookMappings[m].path = webhooks[j]}) = 1
    /\ Len(webhookMappings) = Len(FirstBuild.webhookMappings)

\* C27: a search never runs against a partially built index: after an
\* initialize() that failed part-way, a correlateExecutions call that searches
\* has rebuilt the index first, and the index it searches with holds a
\* mapping for every webhook path of every active workflow, each exactly once
C27_NoPartialIndex ==
    (BuildFailed /\ pc \in {"search", "done"}) =>
        /\ indexBuilds >= 1
        /\ CompleteIndex
        /\ workflowCache = FirstBuild.workflowCache

\* after a build that failed at the second workflow, a search is running on
\* an index that holds the first workflow's mapping only
C27_Witness ==
    /\ BuildFailed
    /\ pc = "search"
    /\ indexBuilds = 0
    /\ Len(webhookMappings) = 1
    /\ Len(FirstBuild.webhookMappings) = 2

----------------------------------------------------------------------------
(* Several calls to one workflow *)

\* the score of candidate against the c-th extracted HTTP call of parent
CallScore(parent, candidate, c) ==
    scoreCorrelation(parent, candidate, extractUserContext(parent),
                     extractHttpCalls(parent)[c])

\* the calls of parent, by position in extraction order, that resolve to the
\* candidate's workflow and against which the candidate scores above 0.5
PassingCalls(parent, candidate) ==
    { c \in 1 .. Len(extractHttpCalls(parent)) :
        LET m == findWorkflowByWebhook(webhookMappings, extractHttpCalls(parent)[c].url)
        IN  /\ m # NoMapping
            /\ m.workflowId = candidate.workflowId
            /\ CallScore(parent, candidate, c).confidence > 5 }

LeastOf(S) == CHOOSE c \in S : \A d \in S : c <= d

\* C28: when several HTTP calls of the expanded execution resolve to the same
\* workflow, a candidate is scored against each call in extraction order
\* until one score exceeds 0.5: a result of the webhook-call pass carries the
\* confidence and the label of the first call it passes, it is accepted at
\* that call, no execution is a result twice, and once the search has
\* returned every listed candidate inside the window of an expanded execution
\* that passes one of its calls is a result
C28_FirstPassingCall ==
    /\ \A i \in 1 .. Len(results) :
        results[i].pass = "webhook" =>
            LET parent == ds.execs[results[i].parentId]
                candidate == ds.execs[results[i].execution]
                passing == PassingCalls(parent, candidate)
            IN  /\ passing # {}
                /\ results[i].confidence
                     = CallScore(parent, candidate, LeastOf(passing)).confidence
                /\ results[i].method
                     = CallScore(parent, candidate, LeastOf(passing)).method
    /\ \A i, j \in 1 .. Len(results) :
        results[i].execution = results[j].execution => i = j
    /\ (last.pass = "webhook" /\ last.outcome \in {"accepted", "rejected"}) =>
        LET passing == PassingCalls(ds.execs[last.parent], ds.execs[last.candidate])
        IN  IF last.outcome = "accepted"
            THEN passing # {} /\ last.call = LeastOf(passing)
            ELSE \A c \in passing : c > last.call
    /\ pc = "done" =>
        \A k \in 1 .. Len(expanded) :
            LET parent == ds.execs[expanded[k]]
            IN  \A w \in WorkflowIds :
                    \A n \in 1 .. Len(ds.listing[w]) :
                        LET candidate == ds.execs[ds.listing[w][n]]
                        IN  (/\ n <= Limit_webhook
                             /\ InWebhookWindow(candidate.startedAt, parent.startedAt)
                             /\ PassingCalls(parent, candidate) # {}) =>
                                \/ candidate.id = rootExecutionId
                                \/ \E i \in 1 .. Len(results) :
                                        results[i].execution = candidate.id

\* the search has returned two results of the root's two calls to the agent:
\* one that the first call rejected and the second accepted, and one that
\* keeps the first call's score although the second call scores higher
C28_Witness ==
    /\ pc = "done"
    /\ \E i, j \in 1 .. Len(results) :
        LET root == ds.execs[rootExecutionId]
            a == ds.execs[results[i].execution]
            b == ds.execs[results[j].execution]
        IN  /\ results[i].pass = "webhook" /\ results[i].parentId = rootExecutionId
            /\ results[j].pass = "webhook" /\ results[j].parentId = rootExecutionId
            /\ PassingCalls(root, a) = {2}
            /\ PassingCalls(root, b) = {1, 2}
            /\ CallScore(root, b, 2).confidence > CallScore(root, b, 1).confidence
            /\ results[j].confidence = CallScore(root, b, 1).confidence

----------------------------------------------------------------------------
(* The window along a chain *)

StartOf(id) == ds.execs[id].startedAt

\* C29: the time window is applied per link and accumulates along a chain:
\* a result starts no earlier than its parent's start (less 1000 ms in the
\* webhook-call pass) and no later than its parent's start + timeWindowMs, so
\* a result whose chain from the root has k links starts no earlier than
\* root start - k*1000 ms and no later than root start + k*timeWindowMs
C29_WindowPerLink ==
    \A i \in 1 .. Len(results) :
        LET start == StartOf(results[i].execution)
            k == StepsToRoot(results[i].execution, Len(results))
        IN  /\ k = results[i].depth + 1
            /\ start >= StartOf(results[i].parentId)
                          - (IF results[i].pass = "webhook" THEN Grace_webhook ELSE 0)
            /\ start <= StartOf(results[i].parentId) + timeWindowMs
            /\ start >= StartOf(rootExecutionId) - k * Grace_webhook
            /\ start <= StartOf(rootExecutionId) + k * timeWindowMs

\* the bound is attained on both sides by results two links from the root,
\* which start outside the root's own window: one 2000 ms before the root's
\* start, one two windows after it
C29_Witness ==
    \E i, j \in 1 .. Len(results) :
        /\ StepsToRoot(results[i].execution, Len(results)) = 2
        /\ StartOf(results[i].execution) = StartOf(rootExecutionId) - 2 * Grace_webhook
        /\ StepsToRoot(results[j].execution, Len(results)) = 2
        /\ StartOf(results[j].execution) = StartOf(rootExecutionId) + 2 * timeWindowMs
        /\ ~InWebhookWindow(StartOf(results[i].execution), StartOf(rootExecutionId))
        /\ ~InWebhookWindow(StartOf(results[j].execution), StartOf(rootExecutionId))

----------------------------------------------------------------------------
(* Ids in URL paths *)

\* an id that is not empty, has at most 100 characters and consists of
\* letters, digits, hyphens and underscores
WellFormedId(id) ==
    /\ Len(id) # 0
    /\ Len(id) <= 100
    /\ \A i \in 1 .. Len(id) :
        \/ id[i] \in Letters
        \/ id[i] \in Digits
        \/ id[i] = "-"
        \/ id[i] = "_"

\* C30: no getExecution or getWorkflow request is sent with an id that is
\* empty, longer than 100 characters or contains a character other than a
\* letter, a digit, a hyphen or an underscore: the call fails instead, and a
\* get_correlated_executions or get_execution_trace call with such an
\* executionId returns an error text and sends no request at all
C30_OnlyValidIdsInPaths ==
    \A c \in 1 .. Len(toolCalls) :
        /\ \A r \in 1 .. Len(toolCalls[c].sent) :
            toolCalls[c].sent[r].hasId => WellFormedId(toolCalls[c].sent[r].id)
        /\ ~WellFormedId(toolCalls[c].id) =>
            /\ toolCalls[c].sent = << >>
            /\ toolCalls[c].failed
            /\ toolCalls[c].text \notin {"", "trace", "tree"}

\* the two tools have been called with ill-formed execution ids, one too long
\* and one with a slash, and each returned its error text without a request
C30_Witness ==
    \E c, d \in 1 .. Len(toolCalls) :
        /\ toolCalls[c].op = "get_correlated_executions"
        /\ Len(toolCalls[c].id) = 101
        /\ toolCalls[c].sent = << >>
        /\ toolCalls[c].text = "Error finding correlated executions: "
              \o "Invalid Execution ID: exceeds maximum length of 100 characters"
        /\ toolCalls[d].op = "get_execution_trace"
        /\ \E i \in 1 .. Len(toolCalls[d].id) : toolCalls[d].id[i] = "/"
        /\ toolCalls[d].sent = << >>
        /\ toolCalls[d].failed

====
